---- MODULE Spec2Model ----
(***************************************************************************)
(* A model of the agentic review loop of ai-code-review: the tool handlers *)
(* of BaseAIAgent (src/src/base-ai-agent.js), the loop version of          *)
(* OpenAIAgent.handleMessageResponse (src/src/openai-agent.js) and         *)
(* AnthropicAgent (src/unnamed/part_009).                                  *)
(*                                                                         *)
(* Six specifications:                                                    *)
(*   SpecComment  one addReviewComment call, both versions of the method,  *)
(*                its arguments drawn from bounded sets;                   *)
(*   Spec         one doReview call of either adapter, with the model's    *)
(*                replies and the collaborators' outcomes chosen freely;   *)
(*   SpecCache    getFileContentWithCache called by several callers that   *)
(*                overlap or follow one another;                           *)
(*   SpecExcerpt  the excerpt getFileContentWithCache makes of a text;     *)
(*   SpecTurn     the tool calls of one model response, run concurrently;  *)
(*   SpecMain     main() (src/unnamed/part_010) with InputProcessor, run   *)
(*                again and again on one pull request.                     *)
(***************************************************************************)
EXTENDS Integers, Sequences, FiniteSets, TLC

VARIABLES
    run,               \* main() and its InputProcessor in SpecMain
    prComments,        \* the issue comments of the pull request, oldest first
    cm,                \* the addReviewComment call of SpecComment, the
                       \* getFileContentWithCache call of SpecExcerpt
    commentatorCalls,  \* fileCommentator calls dispatched by that call, in order
    adapter,           \* "openai" | "anthropic"
    pc,                \* position of doReview
    reviewState,       \* the reviewState object of one review
    message,           \* the model response in hand
    calls,             \* per tool call of the response in hand: its async callback
                       \* (fetched, dispatched: it has called fileContentGetter,
                       \* fileCommentator; failure: the collaborator's error)
    fileCache,         \* BaseAIAgent.fileCache: paths in insertion order
    cacheMutex,        \* SimpleMutex: [locked, waiting]
    modelCalls,        \* model calls issued in the current review (attempt)
    request,           \* what the latest model call was sent: [system, messages]
    retries,           \* AnthropicAgent.doReview: the loop variable
    backoff,           \* AnthropicAgent.doReview: delay of the pending retry timer (ms)
    outcome            \* how doReview ended

vars == <<run, prComments, cm, commentatorCalls, adapter, pc, reviewState, message,
          calls, fileCache, cacheMutex, modelCalls, request, retries, backoff, outcome>>

mainVars == <<run, prComments>>

reviewVars == <<adapter, pc, reviewState, message, calls, fileCache,
                cacheMutex, modelCalls, request, retries, backoff, outcome>>

(***************************************************************************)
(* Bounds of the model.                                                    *)
(***************************************************************************)
\* line numbers tried by SpecComment are the integers -1..MaxLine and three
\* values that are not integers
MaxLine == 3

(***************************************************************************)
(* JavaScript values. A line number argument comes from the model's JSON   *)
(* and may be any value; Number.isInteger tells them apart.                *)
(***************************************************************************)
Num(k) == [t |-> "integer", n |-> k]
Fraction == [t |-> "fraction", n |-> 1]      \* 1.5
NumericString == [t |-> "string", n |-> 2]   \* "2"
Undefined == [t |-> "undefined", n |-> 0]

isInteger(v) == v.t = "integer"

LineValues == {Num(k) : k \in -1..MaxLine} \cup {Fraction, NumericString, Undefined}

Null == "null"
Omitted == "undefined"

(***************************************************************************)
(* BaseAIAgent.handleError: logs, and throws when throwError is set.       *)
(***************************************************************************)
handleError(errorMessage, msg, throwError) ==
    [thrown |-> throwError, message |-> msg \o ": " \o errorMessage]

(***************************************************************************)
(* BaseAIAgent.validateLineNumbers (the same in both versions).            *)
(***************************************************************************)
\* the range check written with >= instead of >
validateLineNumbers_StrictRange(startLineNumber, endLineNumber) ==
    IF ~isInteger(startLineNumber) \/ startLineNumber.n < 1
    THEN "Error: Start line number must be a positive integer"
    ELSE IF ~isInteger(endLineNumber) \/ endLineNumber.n < 1
    THEN "Error: End line number must be a positive integer"
    ELSE IF startLineNumber.n >= endLineNumber.n
    THEN "Error: Start line number cannot be greater than end line number"
    ELSE Null

validateLineNumbers(startLineNumber, endLineNumber) ==
    IF ~isInteger(startLineNumber) \/ startLineNumber.n < 1
    THEN "Error: Start line number must be a positive integer"
    ELSE IF ~isInteger(endLineNumber) \/ endLineNumber.n < 1
    THEN "Error: End line number must be a positive integer"
    ELSE IF startLineNumber.n > endLineNumber.n
    THEN "Error: Start line number cannot be greater than end line number"
    ELSE Null

(***************************************************************************)
(* BaseAIAgent.addReviewComment. Versions: "polling" is the method of the  *)
(* class with the polling cache lock (every handleError call throws),      *)
(* "mutex" the method of the class with SimpleMutex (handleError only      *)
(* logs). The method runs to the fileCommentator call (addReviewComment-   *)
(* Start) and resumes when the collaborator settles (-Settle).             *)
(***************************************************************************)
SuccessText == "Success! The review comment has been published."
DiffHint == "Error! Please ensure that the lines you specify for the comment are part of the DIFF! Error message: "

\* the side parameter's default value
sideOrDefault(side) == IF side = Omitted THEN "RIGHT" ELSE side

\* the arguments of the fileCommentator call
commentatorArgs(a) ==
    [text |-> a.text, path |-> a.fileName, side |-> sideOrDefault(a.side),
     startLine |-> a.startLineNumber, endLine |-> a.endLineNumber]

addReviewCommentStart(version, a) ==
    LET validationError == validateLineNumbers(a.startLineNumber, a.endLineNumber)
    IN  IF validationError # Null
        THEN LET h == handleError(validationError, "Validation error", version = "polling")
             IN  IF h.thrown
                 \* thrown inside the try block: the catch block runs and rethrows
                 THEN [pc |-> "thrown", dispatch |-> FALSE,
                       value |-> handleError(h.message, "Error creating review comment", TRUE).message]
                 ELSE [pc |-> "returned", dispatch |-> FALSE, value |-> validationError]
        ELSE [pc |-> "awaitCommentator", dispatch |-> TRUE, value |-> ""]

\* the catch block calling handleError with throwError = true
addReviewCommentSettle_Rethrow(version, rejected, errorMessage) ==
    IF ~rejected
    THEN [pc |-> "returned", value |-> SuccessText]
    ELSE [pc |-> "thrown",
          value |-> handleError(errorMessage, "Error creating review comment", TRUE).message]

addReviewCommentSettle(version, rejected, errorMessage) ==
    IF ~rejected
    THEN [pc |-> "returned", value |-> SuccessText]
    ELSE LET h == handleError(errorMessage, "Error creating review comment", version = "polling")
         IN  IF h.thrown
             THEN [pc |-> "thrown", value |-> h.message]
             ELSE [pc |-> "returned", value |-> DiffHint \o errorMessage]

(***************************************************************************)
(* SpecComment: one addReviewComment call.                                 *)
(***************************************************************************)
Versions == {"polling", "mutex"}
Sides == {"LEFT", "RIGHT", "BOTH", Omitted}
CommentatorErrors == {"Validation Failed", "line must be part of the diff"}

\* no main() is running
MainIdle ==
    /\ run = <<>>
    /\ prComments = <<>>

ReviewIdle ==
    /\ adapter = "none"
    /\ pc = "idle"
    /\ reviewState = <<>>
    /\ message = <<>>
    /\ calls = <<>>
    /\ fileCache = <<>>
    /\ cacheMutex = [locked |-> FALSE, waiting |-> <<>>]
    /\ modelCalls = 0
    /\ request = <<>>
    /\ retries = 0
    /\ backoff = 0
    /\ outcome = <<>>

InitComment ==
    /\ cm \in [version : Versions,
               fileName : {"a.js"},
               startLineNumber : LineValues,
               endLineNumber : LineValues,
               text : {"bug"},
               side : Sides,
               pc : {"called"},
               value : {""}]
    /\ commentatorCalls = <<>>
    /\ MainIdle
    /\ ReviewIdle

AddReviewComment ==
    /\ cm.pc = "called"
    /\ LET r == addReviewCommentStart(cm.version, cm)
       IN  /\ cm' = [cm EXCEPT !.pc = r.pc, !.value = r.value]
           /\ commentatorCalls' = IF r.dispatch
                                  THEN Append(commentatorCalls, commentatorArgs(cm))
                                  ELSE commentatorCalls
    /\ UNCHANGED <<mainVars, reviewVars>>

CommentatorResolves ==
    /\ cm.pc = "awaitCommentator"
    /\ LET r == addReviewCommentSettle(cm.version, FALSE, "")
       IN  cm' = [cm EXCEPT !.pc = r.pc, !.value = r.value]
    /\ UNCHANGED <<mainVars, commentatorCalls, reviewVars>>

CommentatorRejects ==
    /\ cm.pc = "awaitCommentator"
    /\ \E e \in CommentatorErrors :
         LET r == addReviewCommentSettle(cm.version, TRUE, e)
         IN  cm' = [cm EXCEPT !.pc = r.pc, !.value = r.value]
    /\ UNCHANGED <<mainVars, commentatorCalls, reviewVars>>

NextComment ==
    \/ AddReviewComment
    \/ CommentatorResolves
    \/ CommentatorRejects

SpecComment == InitComment /\ [][NextComment]_vars

(***************************************************************************)
(* The review loop. Program constants, scaled down for the model.          *)
(***************************************************************************)
\* constants.MAX_REVIEW_ITERATIONS (142 in the source), scaled down for the model
MAX_REVIEW_ITERATIONS == 3
\* constants.MAX_CACHE_ENTRIES (1000 in the source), scaled down for the model
MAX_CACHE_ENTRIES == 2
\* AnthropicAgent.doReview: const maxRetries = 3
maxRetries == 3
\* AnthropicAgent.doReview: const initialBackoff = 1000
initialBackoff == 1000
\* Math.random() * 1000, rounded down: the least, a middle and the greatest value
Jitters == {0, 500, 999}

Adapters == {"openai", "anthropic"}

\* JavaScript truthiness of a string value (undefined is Omitted)
Truthy(s) == s # "" /\ s # Omitted

(***************************************************************************)
(* Tool calls the model may emit. A call whose arguments cannot be read    *)
(* (JSON.parse throws in the OpenAI adapter, toolCall.input is missing in  *)
(* the Anthropic adapter) has wellFormed = FALSE.                          *)
(***************************************************************************)
ToolCall(name, wellFormed, path, s, e, side, text) ==
    [name |-> name, wellFormed |-> wellFormed, path |-> path,
     startLineNumber |-> s, endLineNumber |-> e, side |-> side, text |-> text]

GetFileA == ToolCall("get_file_content", TRUE, "a.js", Num(1), Num(2), Omitted, "")
GetFileB == ToolCall("get_file_content", TRUE, "b.js", Num(1), Num(1), Omitted, "")
GetFileBadRange == ToolCall("get_file_content", TRUE, "a.js", Num(2), Num(1), Omitted, "")
CommentA == ToolCall("add_review_comment", TRUE, "a.js", Num(1), Num(2), Omitted, "bug")
CommentBadRange == ToolCall("add_review_comment", TRUE, "a.js", Num(0), Num(2), "LEFT", "bug")
MarkDone(s) == ToolCall("mark_as_done", TRUE, "", Undefined, Undefined, Omitted, s)
MarkDoneMalformed == ToolCall("mark_as_done", FALSE, "", Undefined, Undefined, Omitted, "")
UnknownTool == ToolCall("edit_file", TRUE, "a.js", Undefined, Undefined, Omitted, "")

\* the batches of tool calls a model response may carry
Batches ==
    { <<>>,
      <<GetFileA>>, <<GetFileB>>, <<GetFileBadRange>>,
      <<CommentA>>, <<CommentBadRange>>,
      <<UnknownTool>>, <<MarkDoneMalformed>>,
      <<MarkDone("LGTM")>>, <<MarkDone("")>>,
      <<GetFileA, GetFileA>>,
      <<GetFileA, MarkDone("LGTM")>>,
      <<MarkDone("LGTM"), CommentA>>,
      <<CommentA, MarkDone("")>>,
      <<MarkDone("LGTM"), MarkDone("Fine")>> }

\* the text of a response: none, empty, or some text
ReplyTexts == { [hasText |-> FALSE, text |-> ""],
                [hasText |-> TRUE, text |-> ""],
                [hasText |-> TRUE, text |-> "Looks good"] }

\* the provider assigns each tool call of a response its identifier
WithIds(batch, turn) ==
    [i \in 1..Len(batch) |-> [id |-> [turn |-> turn, index |-> i], call |-> batch[i]]]

\* the responses a model call may return: a missing message, or a message
\* with text and tool calls
Replies(turn) ==
    { [valid |-> FALSE, hasText |-> FALSE, text |-> "", tool_calls |-> <<>>] }
    \cup { [valid |-> TRUE, hasText |-> t.hasText, text |-> t.text, tool_calls |-> <<>>] :
              t \in ReplyTexts }
    \cup { [valid |-> TRUE, hasText |-> FALSE, text |-> "", tool_calls |-> WithIds(b, turn)] :
              b \in Batches \ {<<>>} }

ModelErrors == {"503 Service Unavailable"}
FetchErrors == {"Not Found"}
\* the error of a fileCommentator call made for a tool call of a review
ReviewCommentErrors == {"line must be part of the diff"}

(***************************************************************************)
(* Results of tool calls.                                                  *)
(***************************************************************************)
Text(s) == [kind |-> "text", text |-> s]
\* the fenced, numbered excerpt getFileContentWithCache returns
Excerpt(path, s, e) == [kind |-> "excerpt", path |-> path, startLine |-> s, endLine |-> e]
\* the callback of mark_as_done returns null
NoReply == [kind |-> "null"]

fileRequestKey(c) == <<c.path, c.startLineNumber, c.endLineNumber>>

PreviouslyProvided(c) ==
    Text("Previously provided content for " \o c.path \o " lines "
         \o ToString(c.startLineNumber.n) \o "-" \o ToString(c.endLineNumber.n) \o ".")

(***************************************************************************)
(* reviewState as created by doReview / processReview.                     *)
(***************************************************************************)
InitialUserMessage(a) ==
    IF a = "openai"
    THEN [role |-> "user", content |-> "Changed files for review"]
    ELSE [role |-> "user", content |-> << [type |-> "text", text |-> "Changed files for review"] >>]

NewReviewState(a) ==
    [summary |-> "",
     reviewedFiles |-> {},
     commentsMade |-> 0,
     iterationCount |-> 0,
     seenToolCalls |-> {},
     processedFiles |-> {},
     messageHistory |-> << InitialUserMessage(a) >>]

TerminatedText(a, rs) ==
    IF a = "openai"
    THEN "Code review terminated after " \o ToString(rs.iterationCount)
         \o " iterations. Reviewed " \o ToString(Cardinality(rs.reviewedFiles))
         \o " files with " \o ToString(rs.commentsMade) \o " comments."
    ELSE "Code review terminated early after " \o ToString(rs.iterationCount)
         \o " iterations. Processed " \o ToString(Cardinality(rs.reviewedFiles))
         \o " files with " \o ToString(rs.commentsMade) \o " comments."

CompletedText(rs) ==
    "Code review completed. Reviewed " \o ToString(Cardinality(rs.reviewedFiles))
    \o " files with " \o ToString(rs.commentsMade) \o " comments."

Returned(how, value) == [how |-> how, value |-> value]

(***************************************************************************)
(* What a model call is sent. The OpenAI adapter sends the system prompt   *)
(* as the first message, followed by the history; the Anthropic adapter    *)
(* sends the prompt as a parameter of its own and the history as           *)
(* applyCacheControl returns it.                                           *)
(***************************************************************************)
\* this.getSystemPrompt()
SystemPrompt == "You are an expert code reviewer"

\* delete content.cache_control: the block without that property
withoutCacheControl(content) ==
    [f \in DOMAIN content \ {"cache_control"} |-> content[f]]

\* content.cache_control = { type: "ephemeral" }
withCacheControl(content) ==
    [f \in DOMAIN content \cup {"cache_control"} |->
        IF f = "cache_control" THEN [type |-> "ephemeral"] ELSE content[f]]

\* an applyCacheControl that marks the blocks of every message
applyCacheControl_MarkAll(messages) ==
    [k \in 1..Len(messages) |->
        [messages[k] EXCEPT !.content =
            [j \in 1..Len(@) |-> withCacheControl(withoutCacheControl(@[j]))]]]

\* applyCacheControl, for messages whose contents are arrays of blocks (those
\* of the Anthropic adapter): a copy of the messages (the JSON round trip
\* copies these values as they are) in which cache_control is deleted from
\* every block and then set on the blocks of the latest message
applyCacheControl(messages) ==
    [k \in 1..Len(messages) |->
        [messages[k] EXCEPT !.content =
            [j \in 1..Len(@) |->
                IF k = Len(messages)
                THEN withCacheControl(withoutCacheControl(@[j]))
                ELSE withoutCacheControl(@[j])]]]

\* a request that carries the latest message only
Request_LatestOnly(a, messageHistory) ==
    LET latest == << messageHistory[Len(messageHistory)] >>
    IN  IF a = "openai"
        THEN [system |-> Omitted,
              messages |-> << [role |-> "system", content |-> SystemPrompt] >> \o latest]
        ELSE [system |-> SystemPrompt, messages |-> applyCacheControl(latest)]

Request(a, messageHistory) ==
    IF a = "openai"
    THEN [system |-> Omitted,
          messages |-> << [role |-> "system", content |-> SystemPrompt] >> \o messageHistory]
    ELSE [system |-> SystemPrompt, messages |-> applyCacheControl(messageHistory)]

NoCm == [pc |-> "unused"]

Init ==
    /\ MainIdle
    /\ cm = NoCm
    /\ commentatorCalls = <<>>
    /\ adapter \in Adapters
    /\ pc = "start"
    /\ reviewState = NewReviewState(adapter)
    /\ message = <<>>
    /\ calls = <<>>
    /\ fileCache = <<>>
    /\ cacheMutex = [locked |-> FALSE, waiting |-> <<>>]
    /\ modelCalls = 0
    /\ request = <<>>
    /\ retries = 0
    /\ backoff = 0
    /\ outcome = <<>>

(***************************************************************************)
(* doReview up to the first model call (OpenAIAgent.doReview,              *)
(* AnthropicAgent.processReview): a fresh reviewState, the user message,   *)
(* the initial request.                                                    *)
(***************************************************************************)
StartReview ==
    /\ pc = "start"
    /\ reviewState' = NewReviewState(adapter)
    /\ modelCalls' = 1
    /\ request' = Request(adapter, NewReviewState(adapter).messageHistory)
    /\ message' = <<>>
    /\ calls' = <<>>
    /\ pc' = "awaitModel"
    /\ UNCHANGED <<mainVars, cm, commentatorCalls, adapter, fileCache, cacheMutex, retries, backoff, outcome>>

\* the catch block of the retry loop with a delay that does not grow
AnthropicAttemptFailed_FixedDelay(errorMessage) ==
    IF retries >= maxRetries - 1
    THEN /\ pc' = "done"
         /\ outcome' = Returned("error_swallowed", "")
         /\ UNCHANGED <<retries, backoff>>
    ELSE /\ pc' = "backoff"
         /\ backoff' \in {initialBackoff + jitter : jitter \in Jitters}
         /\ UNCHANGED <<outcome, retries>>

\* An error leaves processReview (it is rethrown as "Error during review: ...")
\* and reaches the catch block of the retry loop of AnthropicAgent.doReview.
\* On the last attempt handleError throws into the outer catch block, which
\* only logs, and doReview returns reviewSummary, still ''.
AnthropicAttemptFailed(errorMessage) ==
    IF retries >= maxRetries - 1
    THEN /\ pc' = "done"
         /\ outcome' = Returned("error_swallowed", "")
         /\ UNCHANGED <<retries, backoff>>
    ELSE /\ pc' = "backoff"
         /\ backoff' \in {initialBackoff * (2 ^ retries) + jitter : jitter \in Jitters}
         /\ UNCHANGED <<outcome, retries>>

\* An error leaves OpenAIAgent.doReview: its catch block logs and rethrows.
OpenAIThrows(errorMessage) ==
    /\ pc' = "done"
    /\ outcome' = Returned("thrown", errorMessage)
    /\ UNCHANGED <<retries, backoff>>

Throws(errorMessage) ==
    IF adapter = "openai"
    THEN OpenAIThrows(errorMessage)
    ELSE AnthropicAttemptFailed("Error during review: " \o errorMessage)

\* the backoff timer of AnthropicAgent.doReview fires: next loop iteration
Retry ==
    /\ pc = "backoff"
    /\ retries' = retries + 1
    /\ backoff' = 0
    /\ pc' = "start"
    /\ UNCHANGED <<mainVars, cm, commentatorCalls, adapter, reviewState, message, calls,
                   fileCache, cacheMutex, modelCalls, request, outcome>>

\* the model call in flight returns a response
ModelReplies ==
    /\ pc = "awaitModel"
    /\ message' \in Replies(modelCalls)
    /\ calls' = <<>>
    /\ pc' = "handle"
    /\ UNCHANGED <<mainVars, cm, commentatorCalls, adapter, reviewState, fileCache,
                   cacheMutex, modelCalls, request, retries, backoff, outcome>>

\* the model call in flight fails
ModelFails ==
    /\ pc = "awaitModel"
    /\ \E e \in ModelErrors : Throws(e)
    /\ UNCHANGED <<mainVars, cm, commentatorCalls, adapter, reviewState, message, calls,
                   fileCache, cacheMutex, modelCalls, request>>

(***************************************************************************)
(* handleMessageResponse, from its entry to the start of the tool calls.   *)
(***************************************************************************)
PendingCalls(toolCalls) ==
    [i \in 1..Len(toolCalls) |->
        [pc |-> "pending", toolOutput |-> NoReply, isError |-> FALSE,
         fetched |-> FALSE, dispatched |-> FALSE, failure |-> ""]]

Return(how, value) ==
    /\ pc' = "done"
    /\ outcome' = Returned(how, value)

\* OpenAIAgent.handleMessageResponse: one pass of the while loop up to the
\* branch on message.tool_calls; the guard is tested before the increment.
OpenAIHandleMessageResponse ==
    /\ pc = "handle"
    /\ adapter = "openai"
    /\ IF ~message.valid
       THEN /\ OpenAIThrows("Invalid response from OpenAI API")
            /\ UNCHANGED <<reviewState, calls>>
       ELSE IF reviewState.iterationCount >= MAX_REVIEW_ITERATIONS
       THEN /\ Return("ceiling", TerminatedText(adapter, reviewState))
            /\ UNCHANGED <<reviewState, calls, retries, backoff>>
       ELSE LET content == IF message.hasText THEN message.text ELSE Null
                rs1 == [reviewState EXCEPT
                          !.iterationCount = @ + 1,
                          !.messageHistory = Append(@,
                              [role |-> "assistant", content |-> content,
                               tool_calls |-> message.tool_calls])]
            IN  IF Len(message.tool_calls) > 0
                THEN /\ reviewState' = rs1
                     /\ calls' = PendingCalls(message.tool_calls)
                     /\ pc' = "tools"
                     /\ UNCHANGED <<outcome, retries, backoff>>
                ELSE LET rs2 == IF message.hasText /\ Truthy(message.text)
                                   /\ ~Truthy(rs1.summary)
                                THEN [rs1 EXCEPT !.summary = message.text]
                                ELSE rs1
                     IN  /\ reviewState' = rs2
                         /\ Return("no_tool_calls",
                                   IF Truthy(rs2.summary) THEN rs2.summary
                                   ELSE CompletedText(rs2))
                         /\ UNCHANGED <<calls, retries, backoff>>
    /\ UNCHANGED <<mainVars, cm, commentatorCalls, adapter, message, fileCache, cacheMutex, modelCalls, request>>

\* the content blocks of an Anthropic response
ContentBlocks(m) ==
    (IF m.hasText THEN << [type |-> "text", text |-> m.text] >> ELSE <<>>)
    \o [i \in 1..Len(m.tool_calls) |->
          [type |-> "tool_use", id |-> m.tool_calls[i].id, input |-> m.tool_calls[i].call]]

\* AnthropicAgent.handleMessageResponse up to the Promise.all over the tool
\* calls; the increment comes before the guard.
AnthropicHandleMessageResponse ==
    /\ pc = "handle"
    /\ adapter = "anthropic"
    /\ IF ~message.valid
       THEN /\ AnthropicAttemptFailed("Error during review: Invalid response from Anthropic API")
            /\ UNCHANGED <<reviewState, calls>>
       ELSE LET rs1 == [reviewState EXCEPT !.iterationCount = @ + 1]
                rs2 == [rs1 EXCEPT !.messageHistory = Append(@,
                           [role |-> "assistant", content |-> ContentBlocks(message)])]
            IN  IF rs1.iterationCount >= MAX_REVIEW_ITERATIONS
                THEN /\ reviewState' = rs1
                     /\ Return("ceiling",
                               IF ~Truthy(rs1.summary) THEN TerminatedText(adapter, rs1)
                               ELSE rs1.summary)
                     /\ UNCHANGED <<calls, retries, backoff>>
                ELSE IF Len(message.tool_calls) = 0
                THEN IF message.hasText
                     THEN LET rs3 == IF ~Truthy(rs2.summary)
                                     THEN [rs2 EXCEPT !.summary = message.text]
                                     ELSE rs2
                          IN  /\ reviewState' = rs3
                              /\ Return("no_tool_calls", rs3.summary)
                              /\ UNCHANGED <<calls, retries, backoff>>
                     ELSE /\ reviewState' = rs2
                          /\ Return("no_tool_calls",
                                    IF ~Truthy(rs2.summary) THEN CompletedText(rs2)
                                    ELSE rs2.summary)
                          /\ UNCHANGED <<calls, retries, backoff>>
                ELSE /\ reviewState' = rs2
                     /\ calls' = PendingCalls(message.tool_calls)
                     /\ pc' = "tools"
                     /\ UNCHANGED <<outcome, retries, backoff>>
    /\ UNCHANGED <<mainVars, cm, commentatorCalls, adapter, message, fileCache, cacheMutex, modelCalls, request>>

(***************************************************************************)
(* The tool calls of one response. Promise.all(tool_calls.map(async ...))  *)
(* runs every callback, in order, up to its first await (StartToolCall);   *)
(* the callbacks then resume in the order in which what they wait for      *)
(* completes.                                                              *)
(***************************************************************************)
AllStarted == \A i \in DOMAIN calls : calls[i].pc # "pending"
AllSettled == \A i \in DOMAIN calls : calls[i].pc = "settled"
NextPending ==
    CHOOSE i \in DOMAIN calls :
        /\ calls[i].pc = "pending"
        /\ \A j \in 1..(i - 1) : calls[j].pc # "pending"

KnownTools == {"get_file_content", "add_review_comment", "mark_as_done"}

\* arguments that can always be read
ArgumentsThrow_Never(a, c) == FALSE

\* Reading the arguments throws: JSON.parse comes first in the OpenAI adapter;
\* the Anthropic adapter reads toolCall.input inside the branch of a known tool.
ArgumentsThrow(a, c) ==
    ~c.wellFormed /\ (a = "openai" \/ c.name \in KnownTools)

ArgumentsErrorText(a) ==
    IF a = "openai" THEN "Unexpected end of JSON input"
    ELSE "Cannot destructure property of undefined"

\* a catch block that returns null, so that the call gets no reply
Caught_NoReply(errorMessage) == NoReply

\* the callback's own catch block turns an exception into a reply
Caught(errorMessage) == Text("Error: " \o errorMessage)

\* the arguments the adapters pass to addReviewComment (side defaults to RIGHT
\* in the destructuring)
CommentArgs(c) ==
    [fileName |-> c.path, startLineNumber |-> c.startLineNumber,
     endLineNumber |-> c.endLineNumber, text |-> c.text,
     side |-> sideOrDefault(c.side)]

\* the checks without the comparison of the two bounds
getFileContentArgumentError_NoOrderCheck(c) ==
    IF c.path = ""
    THEN "Invalid file path provided"
    ELSE IF \/ ~isInteger(c.startLineNumber)
            \/ ~isInteger(c.endLineNumber)
            \/ c.startLineNumber.n < 1
            \/ c.endLineNumber.n < 1
    THEN "Invalid line numbers provided"
    ELSE Null

\* the checks at the head of getFileContentWithCache (they throw)
getFileContentArgumentError(c) ==
    IF c.path = ""
    THEN "Invalid file path provided"
    ELSE IF \/ ~isInteger(c.startLineNumber)
            \/ ~isInteger(c.endLineNumber)
            \/ c.startLineNumber.n < 1
            \/ c.endLineNumber.n < 1
            \/ c.startLineNumber.n > c.endLineNumber.n
    THEN "Invalid line numbers provided"
    ELSE Null

\* no adapter consults reviewState.seenToolCalls
Deduplicates_Never(a) == FALSE

\* the adapters that keep reviewState.seenToolCalls
Deduplicates(a) == a = "anthropic"

\* after getFileContentWithCache has returned (content or error string):
\* reviewState.seenToolCalls.add, reviewState.processedFiles.add
AfterGetFileContent(rs, c) ==
    IF Deduplicates(adapter)
    THEN [rs EXCEPT !.seenToolCalls = @ \cup {fileRequestKey(c)},
                    !.processedFiles = @ \cup {c.path}]
    ELSE rs

\* after addReviewComment has returned (success or error string)
AfterAddReviewComment(rs, c) ==
    [rs EXCEPT !.reviewedFiles = @ \cup {c.path}, !.commentsMade = @ + 1]

Settled(cs, i, out, isError) ==
    [cs EXCEPT ![i].pc = "settled", ![i].toolOutput = out, ![i].isError = isError]

\* SimpleMutex keeps the grant() closures of the queued callers in _waiting;
\* the model keeps the caller's index, and Dead for the closure of a caller
\* whose timer has fired (its promise is rejected, the closure stays queued)
Dead == 0

\* an acquire that grants at once and never takes the lock
acquire_NoLock(m, i) == m

\* SimpleMutex.acquire, called by callback i
acquire(m, i) ==
    IF ~m.locked
    THEN [m EXCEPT !.locked = TRUE]
    ELSE [m EXCEPT !.waiting = Append(@, i)]

\* SimpleMutex.release
release(m) ==
    IF Len(m.waiting) > 0
    THEN [m EXCEPT !.waiting = Tail(@)]
    ELSE [m EXCEPT !.locked = FALSE]

\* the waiter whose grant() release() calls resumes with the lock
Granted(cs, m) ==
    IF Len(m.waiting) > 0 /\ Head(m.waiting) # Dead
    THEN [cs EXCEPT ![Head(m.waiting)].pc = "lockGranted"]
    ELSE cs

\* the timer of acquire fires for the queued caller i: its closure stays in
\* _waiting, its promise is rejected
timedOut(m, i) ==
    [m EXCEPT !.waiting = [k \in 1..Len(@) |-> IF @[k] = i THEN Dead ELSE @[k]]]

LockTimeout == "Timeout while waiting for cache lock"

\* what the catch block of getFileContentWithCache returns
ErrorGettingFileContent(errorMessage) == Text("Error getting file content: " \o errorMessage)

\* the ways a fetch fails: fileContentGetter rejects, or (for b.js, say a
\* directory) resolves with a value that is not a string
FetchFailures(path) ==
    IF path = "b.js"
    THEN {"Invalid content type received for " \o path}
    ELSE FetchErrors

InCache(cache, path) == \E k \in 1..Len(cache) : cache[k] = path

\* fileCache.set without the eviction
CacheSet_NoEviction(cache, path) ==
    IF InCache(cache, path) THEN cache ELSE Append(cache, path)

\* fileCache.set followed by the eviction of the newest key
CacheSet_EvictNewest(cache, path) ==
    LET added == IF InCache(cache, path) THEN cache ELSE Append(cache, path)
    IN  IF Len(added) > MAX_CACHE_ENTRIES THEN SubSeq(added, 1, Len(added) - 1) ELSE added

\* fileCache.set followed by the eviction of the oldest key
CacheSet(cache, path) ==
    LET added == IF InCache(cache, path) THEN cache ELSE Append(cache, path)
    IN  IF Len(added) > MAX_CACHE_ENTRIES THEN Tail(added) ELSE added

StartToolCall ==
    /\ pc = "tools"
    /\ ~AllStarted
    /\ LET i == NextPending
           c == message.tool_calls[i].call
       IN  IF ArgumentsThrow(adapter, c)
           THEN /\ calls' = Settled(calls, i, Caught(ArgumentsErrorText(adapter)), TRUE)
                /\ UNCHANGED <<reviewState, cacheMutex>>
           ELSE IF c.name = "get_file_content"
           THEN IF Deduplicates(adapter) /\ fileRequestKey(c) \in reviewState.seenToolCalls
                THEN /\ calls' = Settled(calls, i, PreviouslyProvided(c), FALSE)
                     /\ UNCHANGED <<reviewState, cacheMutex>>
                ELSE IF getFileContentArgumentError(c) # Null
                THEN /\ calls' = Settled(calls, i, Caught(getFileContentArgumentError(c)), TRUE)
                     /\ UNCHANGED <<reviewState, cacheMutex>>
                ELSE /\ cacheMutex' = acquire(cacheMutex, i)
                     /\ calls' = [calls EXCEPT ![i].pc =
                                     IF cacheMutex.locked THEN "awaitLock" ELSE "lockGranted"]
                     /\ UNCHANGED reviewState
           ELSE IF c.name = "add_review_comment"
           THEN LET r == addReviewCommentStart("mutex", CommentArgs(c))
                IN  IF r.dispatch
                    THEN /\ calls' = [calls EXCEPT ![i].pc = "awaitCommentator",
                                                   ![i].dispatched = TRUE]
                         /\ UNCHANGED <<reviewState, cacheMutex>>
                    ELSE IF r.pc = "thrown"
                    THEN /\ calls' = Settled(calls, i, Caught(r.value), TRUE)
                         /\ UNCHANGED <<reviewState, cacheMutex>>
                    ELSE /\ calls' = Settled(calls, i, Text(r.value), FALSE)
                         /\ reviewState' = AfterAddReviewComment(reviewState, c)
                         /\ UNCHANGED cacheMutex
           ELSE IF c.name = "mark_as_done"
           THEN /\ reviewState' = [reviewState EXCEPT !.summary = c.text]
                /\ calls' = Settled(calls, i, NoReply, FALSE)
                /\ UNCHANGED cacheMutex
           ELSE /\ calls' = Settled(calls, i, Text("Unknown tool: " \o c.name), FALSE)
                /\ UNCHANGED <<reviewState, cacheMutex>>
    /\ UNCHANGED <<mainVars, cm, commentatorCalls, adapter, pc, message, fileCache,
                   modelCalls, request, retries, backoff, outcome>>

\* getFileContentWithCache resumes holding the lock: a hit returns the excerpt
\* and releases; a miss starts fileContentGetter and keeps the lock
LockGranted(i) ==
    /\ pc = "tools"
    /\ AllStarted
    /\ calls[i].pc = "lockGranted"
    /\ LET c == message.tool_calls[i].call
       IN  IF InCache(fileCache, c.path)
           THEN /\ cacheMutex' = release(cacheMutex)
                /\ calls' = Granted(Settled(calls, i,
                                Excerpt(c.path, c.startLineNumber, c.endLineNumber), FALSE),
                                cacheMutex)
                /\ reviewState' = AfterGetFileContent(reviewState, c)
           ELSE /\ calls' = [calls EXCEPT ![i].pc = "awaitFetch", ![i].fetched = TRUE]
                /\ UNCHANGED <<reviewState, cacheMutex>>
    /\ UNCHANGED <<mainVars, cm, commentatorCalls, adapter, pc, message, fileCache,
                   modelCalls, request, retries, backoff, outcome>>

\* fileContentGetter returns the file's text
FetchResolves(i) ==
    /\ pc = "tools"
    /\ AllStarted
    /\ calls[i].pc = "awaitFetch"
    /\ LET c == message.tool_calls[i].call
       IN  /\ fileCache' = CacheSet(fileCache, c.path)
           /\ cacheMutex' = release(cacheMutex)
           /\ calls' = Granted(Settled(calls, i,
                           Excerpt(c.path, c.startLineNumber, c.endLineNumber), FALSE),
                           cacheMutex)
           /\ reviewState' = AfterGetFileContent(reviewState, c)
    /\ UNCHANGED <<mainVars, cm, commentatorCalls, adapter, pc, message, modelCalls, request, retries, backoff, outcome>>

\* fileContentGetter fails: the finally block releases, the catch block of
\* getFileContentWithCache returns the error string
FetchRejects(i) ==
    /\ pc = "tools"
    /\ AllStarted
    /\ calls[i].pc = "awaitFetch"
    /\ \E e \in FetchFailures(message.tool_calls[i].call.path) :
         LET c == message.tool_calls[i].call
         IN  /\ cacheMutex' = release(cacheMutex)
             /\ calls' = Granted([Settled(calls, i, ErrorGettingFileContent(e), FALSE)
                                EXCEPT ![i].failure = e],
                             cacheMutex)
             /\ reviewState' = AfterGetFileContent(reviewState, c)
    /\ UNCHANGED <<mainVars, cm, commentatorCalls, adapter, pc, message, fileCache,
                   modelCalls, request, retries, backoff, outcome>>

\* the timer of acquire fires while callback i is queued for the lock: acquire
\* rejects outside the inner try block, so release is not called, and the catch
\* block of getFileContentWithCache returns the error string
AcquireTimesOut(i) ==
    /\ pc = "tools"
    /\ AllStarted
    /\ calls[i].pc = "awaitLock"
    /\ cacheMutex' = timedOut(cacheMutex, i)
    /\ calls' = Settled(calls, i, ErrorGettingFileContent(LockTimeout), FALSE)
    /\ reviewState' = AfterGetFileContent(reviewState, message.tool_calls[i].call)
    /\ UNCHANGED <<mainVars, cm, commentatorCalls, adapter, pc, message, fileCache,
                   modelCalls, request, retries, backoff, outcome>>

\* addReviewComment resumes after fileCommentator settled
ToolCommentSettles(i, rejected, errorMessage) ==
    LET c == message.tool_calls[i].call
        r == addReviewCommentSettle("mutex", rejected, errorMessage)
    IN  IF r.pc = "thrown"
        THEN /\ calls' = [Settled(calls, i, Caught(r.value), TRUE) EXCEPT ![i].failure = errorMessage]
             /\ UNCHANGED reviewState
        ELSE /\ calls' = [Settled(calls, i, Text(r.value), FALSE) EXCEPT ![i].failure = errorMessage]
             /\ reviewState' = AfterAddReviewComment(reviewState, c)

ToolCommentatorResolves(i) ==
    /\ pc = "tools"
    /\ AllStarted
    /\ calls[i].pc = "awaitCommentator"
    /\ ToolCommentSettles(i, FALSE, "")
    /\ UNCHANGED <<mainVars, cm, commentatorCalls, adapter, pc, message, fileCache, cacheMutex,
                   modelCalls, request, retries, backoff, outcome>>

ToolCommentatorRejects(i) ==
    /\ pc = "tools"
    /\ AllStarted
    /\ calls[i].pc = "awaitCommentator"
    /\ \E e \in ReviewCommentErrors : ToolCommentSettles(i, TRUE, e)
    /\ UNCHANGED <<mainVars, cm, commentatorCalls, adapter, pc, message, fileCache, cacheMutex,
                   modelCalls, request, retries, backoff, outcome>>

(***************************************************************************)
(* Promise.all has resolved: the replies are appended to the history, then *)
(* the review returns the summary or issues the follow-up request.         *)
(***************************************************************************)
\* the array Promise.all resolves to, with each reply's call identifier
ToolReplies ==
    [i \in DOMAIN calls |->
        [id |-> message.tool_calls[i].id, out |-> calls[i].toolOutput,
         isError |-> calls[i].isError]]

\* a filter that drops the whole batch once one callback returned null
NonNull_DropBatch(replies) ==
    IF \E k \in 1..Len(replies) : replies[k].out = NoReply THEN <<>> ELSE replies

\* toolReplies.filter(Boolean) / filter(response => response !== null)
NonNull(replies) == SelectSeq(replies, LAMBDA r : r.out # NoReply)

OpenAIToolMessages(replies) ==
    [k \in 1..Len(replies) |->
        [role |-> "tool", content |-> replies[k].out, tool_call_id |-> replies[k].id]]

\* toolResponse || "Operation completed successfully"
OrCompleted(out) ==
    IF out = Text("") THEN Text("Operation completed successfully") ELSE out

AnthropicToolResults(replies) ==
    [k \in 1..Len(replies) |->
        IF replies[k].isError
        THEN [type |-> "tool_result", tool_use_id |-> replies[k].id,
              content |-> replies[k].out, is_error |-> TRUE]
        ELSE [type |-> "tool_result", tool_use_id |-> replies[k].id,
              content |-> OrCompleted(replies[k].out)]]

\* the history after the replies of the batch were pushed
WithReplies(a, history, replies) ==
    IF a = "openai"
    THEN history \o OpenAIToolMessages(replies)
    ELSE IF Len(replies) > 0
    THEN Append(history, [role |-> "user", content |-> AnthropicToolResults(replies)])
    ELSE history

\* the test that ends the review after a batch: if (reviewState.summary)
SummarySet(rs) == Truthy(rs.summary)

CollectToolReplies ==
    /\ pc = "tools"
    /\ AllSettled
    /\ LET rs1 == [reviewState EXCEPT
                      !.messageHistory = WithReplies(adapter, @, NonNull(ToolReplies))]
       IN  /\ reviewState' = rs1
           /\ IF SummarySet(rs1)
              THEN /\ Return("mark_as_done", rs1.summary)
                   /\ UNCHANGED <<modelCalls, request>>
              ELSE /\ modelCalls' = modelCalls + 1
                   /\ request' = Request(adapter, rs1.messageHistory)
                   /\ pc' = "awaitModel"
                   /\ UNCHANGED outcome
    /\ UNCHANGED <<mainVars, cm, commentatorCalls, adapter, message, calls, fileCache,
                   cacheMutex, retries, backoff>>

Next ==
    \/ StartReview
    \/ ModelReplies
    \/ ModelFails
    \/ Retry
    \/ OpenAIHandleMessageResponse
    \/ AnthropicHandleMessageResponse
    \/ StartToolCall
    \/ \E i \in DOMAIN calls : LockGranted(i)
    \/ \E i \in DOMAIN calls : AcquireTimesOut(i)
    \/ \E i \in DOMAIN calls : FetchResolves(i)
    \/ \E i \in DOMAIN calls : FetchRejects(i)
    \/ \E i \in DOMAIN calls : ToolCommentatorResolves(i)
    \/ \E i \in DOMAIN calls : ToolCommentatorRejects(i)
    \/ CollectToolReplies

Spec == Init /\ [][Next]_vars

\* every awaited external call eventually returns or fails, and the event
\* loop runs every continuation that is ready
FairSpec == Spec /\ WF_vars(Next)

(***************************************************************************)
(* SpecCache: getFileContentWithCache (the SimpleMutex version) called     *)
(* directly, by up to MaxCalls callers that arrive at any time, so that    *)
(* calls overlap or follow one another. The callers are kept in calls, in  *)
(* order of arrival, their arguments in message.tool_calls; the            *)
(* continuations of a call are the actions of the review loop.             *)
(***************************************************************************)
\* the number of getFileContentWithCache calls of SpecCache
MaxCalls == 4

GetFileC == ToolCall("get_file_content", TRUE, "c.js", Num(1), Num(1), Omitted, "")
GetFileZeroStart == ToolCall("get_file_content", TRUE, "a.js", Num(0), Num(2), Omitted, "")
GetFileFraction == ToolCall("get_file_content", TRUE, "b.js", Num(1), Fraction, Omitted, "")
GetFileNoPath == ToolCall("get_file_content", TRUE, "", Num(1), Num(1), Omitted, "")

CacheRequests ==
    {GetFileA, GetFileB, GetFileC,
     GetFileBadRange, GetFileZeroStart, GetFileFraction, GetFileNoPath}

InitCache ==
    /\ MainIdle
    /\ cm = NoCm
    /\ commentatorCalls = <<>>
    /\ adapter = "none"
    /\ pc = "tools"
    /\ reviewState = <<>>
    /\ message = [valid |-> TRUE, hasText |-> FALSE, text |-> "", tool_calls |-> <<>>]
    /\ calls = <<>>
    /\ fileCache = <<>>
    /\ cacheMutex = [locked |-> FALSE, waiting |-> <<>>]
    /\ modelCalls = 0
    /\ request = <<>>
    /\ retries = 0
    /\ backoff = 0
    /\ outcome = <<>>

\* a caller's record: queued tells whether acquire put it in _waiting
DirectCall(callPc, out, queued) ==
    [pc |-> callPc, toolOutput |-> out, isError |-> callPc = "thrown",
     fetched |-> FALSE, dispatched |-> FALSE, failure |-> "", queued |-> queued]

\* getFileContentWithCache is called: the argument checks, then acquire
GetFileContentWithCache ==
    /\ adapter = "none"
    /\ pc = "tools"
    /\ Len(calls) < MaxCalls
    /\ \E c \in CacheRequests :
         LET i == Len(calls) + 1
         IN  /\ message' = [message EXCEPT !.tool_calls =
                               Append(@, [id |-> [turn |-> 0, index |-> i], call |-> c])]
             /\ IF getFileContentArgumentError(c) # Null
                THEN /\ calls' = Append(calls,
                                    DirectCall("thrown", Text(getFileContentArgumentError(c)), FALSE))
                     /\ UNCHANGED cacheMutex
                ELSE /\ cacheMutex' = acquire(cacheMutex, i)
                     /\ calls' = Append(calls,
                                    IF cacheMutex.locked
                                    THEN DirectCall("awaitLock", NoReply, TRUE)
                                    ELSE DirectCall("lockGranted", NoReply, FALSE))
    /\ UNCHANGED <<mainVars, cm, commentatorCalls, adapter, pc, reviewState, fileCache,
                   modelCalls, request, retries, backoff, outcome>>

NextCache ==
    \/ GetFileContentWithCache
    \/ \E i \in DOMAIN calls : LockGranted(i)
    \/ \E i \in DOMAIN calls : AcquireTimesOut(i)
    \/ \E i \in DOMAIN calls : FetchResolves(i)
    \/ \E i \in DOMAIN calls : FetchRejects(i)

SpecCache == InitCache /\ [][NextCache]_vars

(***************************************************************************)
(* SpecTurn: the tool calls of the first model response of a review, from  *)
(* the Promise.all over them to the end of the turn, for every response of *)
(* up to MaxBatch tool calls.                                              *)
(***************************************************************************)
\* the longest response of SpecTurn, in tool calls
MaxBatch == 3

CommentB == ToolCall("add_review_comment", TRUE, "b.js", Num(1), Num(1), "LEFT", "typo")

\* the calls of a response: well-formed calls of the three tools, a call of
\* a tool that does not exist, and calls whose arguments cannot be read
TurnCalls ==
    {GetFileA, GetFileB, GetFileC, CommentA, CommentB, CommentBadRange,
     MarkDone("LGTM"), MarkDone("Fine"),
     UnknownTool, MarkDoneMalformed,
     ToolCall("edit_file", FALSE, "a.js", Undefined, Undefined, Omitted, ""),
     ToolCall("get_file_content", FALSE, "a.js", Num(1), Num(2), Omitted, "")}

TurnBatches == UNION {[1..n -> TurnCalls] : n \in 1..MaxBatch}

\* handleMessageResponse has counted the iteration and pushed the response
InitTurn ==
    /\ MainIdle
    /\ cm = NoCm
    /\ commentatorCalls = <<>>
    /\ adapter \in Adapters
    /\ pc = "tools"
    /\ message \in {[valid |-> TRUE, hasText |-> FALSE, text |-> "",
                      tool_calls |-> WithIds(b, 1)] : b \in TurnBatches}
    /\ reviewState =
          [NewReviewState(adapter) EXCEPT
              !.iterationCount = 1,
              !.messageHistory = Append(@,
                  IF adapter = "openai"
                  THEN [role |-> "assistant", content |-> Null,
                        tool_calls |-> message.tool_calls]
                  ELSE [role |-> "assistant", content |-> ContentBlocks(message)])]
    /\ calls = PendingCalls(message.tool_calls)
    /\ fileCache = <<>>
    /\ cacheMutex = [locked |-> FALSE, waiting |-> <<>>]
    /\ modelCalls = 1
    /\ request = Request(adapter, NewReviewState(adapter).messageHistory)
    /\ retries = 0
    /\ backoff = 0
    /\ outcome = <<>>

NextTurn ==
    \/ StartToolCall
    \/ \E i \in DOMAIN calls : LockGranted(i)
    \/ \E i \in DOMAIN calls : AcquireTimesOut(i)
    \/ \E i \in DOMAIN calls : FetchResolves(i)
    \/ \E i \in DOMAIN calls : FetchRejects(i)
    \/ \E i \in DOMAIN calls : ToolCommentatorResolves(i)
    \/ \E i \in DOMAIN calls : ToolCommentatorRejects(i)
    \/ CollectToolReplies

SpecTurn == InitTurn /\ [][NextTurn]_vars

(***************************************************************************)
(* SpecExcerpt: the tail of getFileContentWithCache, which turns the       *)
(* cached text and a valid range into the numbered excerpt. A text is a    *)
(* sequence of tokens: runs of characters without a line terminator, and   *)
(* line terminators.                                                       *)
(***************************************************************************)
\* constants.LINE_SPAN
LINE_SPAN == 20
\* the longest file of SpecExcerpt, in lines
MaxFileLines == 45
\* the greatest line number requested in SpecExcerpt
MaxRequestLine == 24

Max(a, b) == IF a >= b THEN a ELSE b
Min(a, b) == IF a <= b THEN a ELSE b

Terminators == {"\n", "\r\n"}

\* the text of line k of the files of SpecExcerpt
LineText(k) == "line " \o ToString(k)

\* a file of n lines, each but the last followed by newline, the last one
\* too when the file is terminated
FileText(n, newline, terminated) ==
    [k \in 1..(IF terminated THEN 2 * n ELSE Max(2 * n - 1, 0)) |->
        IF k % 2 = 1 THEN LineText((k + 1) \div 2) ELSE newline]

RECURSIVE concat(_)
\* the string a run of tokens spells
concat(tokens) ==
    IF tokens = <<>> THEN "" ELSE Head(tokens) \o concat(Tail(tokens))

\* content.split(/\r?\n/): the pieces between the line terminators, one more
\* than there are terminators
split(text) ==
    LET at == SelectSeq([k \in 1..Len(text) |-> k], LAMBDA k : text[k] \in Terminators)
        from(j) == IF j = 1 THEN 1 ELSE at[j - 1] + 1
        to(j) == IF j = Len(at) + 1 THEN Len(text) ELSE at[j] - 1
    IN  [j \in 1..(Len(at) + 1) |->
            concat(IF from(j) > to(j) THEN <<>> ELSE SubSeq(text, from(j), to(j)))]

RECURSIVE padStart(_, _)
\* String.prototype.padStart(width, " ")
padStart(str, width) ==
    IF Len(str) >= width THEN str ELSE padStart(" " \o str, width)

\* Array.prototype.slice(startIndex, endIndex), for indices within the array
slice(arr, startIndex, endIndex) ==
    IF startIndex >= endIndex THEN <<>> ELSE SubSeq(arr, startIndex + 1, endIndex)

span == IF LINE_SPAN >= 0 THEN LINE_SPAN ELSE 3

\* the first index without the step from line numbers to indices
startIndex_OffByOne(startLineNumber) == Max(0, startLineNumber - span)

startIndex(startLineNumber) == Max(0, startLineNumber - 1 - span)

\* the fenced block: the path after the fence, then the numbered lines (the
\* paths of the model hold no backslash and no backtick to escape)
formatExcerpt(pathToFile, content, startLineNumber, endLineNumber) ==
    LET lines == split(content)
        endIndex == Min(Len(lines), endLineNumber + span)
        selectedLines == slice(lines, startIndex(startLineNumber), endIndex)
        width == Max(4, Len(ToString(Len(lines))))
    IN  [fence |-> pathToFile,
         numberedLines |->
            [k \in 1..Len(selectedLines) |->
                padStart(ToString(startIndex(startLineNumber) + (k - 1) + 1), width)
                    \o ": " \o selectedLines[k]]]

InitExcerpt ==
    /\ cm \in {c \in [fileName : {"a.js"},
                       lineCount : 0..MaxFileLines,
                       newline : Terminators,
                       terminated : BOOLEAN,
                       startLineNumber : 1..MaxRequestLine,
                       endLineNumber : 1..MaxRequestLine,
                       pc : {"cached"},
                       value : {<<>>}] :
                   /\ c.startLineNumber <= c.endLineNumber
                   /\ c.newline = "\r\n" => c.lineCount <= 2}
    /\ commentatorCalls = <<>>
    /\ MainIdle
    /\ ReviewIdle

\* getFileContentWithCache, from the release of the lock to its return
FormatExcerpt ==
    /\ cm.pc = "cached"
    /\ cm' = [cm EXCEPT
                !.pc = "returned",
                !.value = formatExcerpt(cm.fileName,
                                        FileText(cm.lineCount, cm.newline, cm.terminated),
                                        cm.startLineNumber, cm.endLineNumber)]
    /\ UNCHANGED <<mainVars, commentatorCalls, reviewVars>>

NextExcerpt == FormatExcerpt

SpecExcerpt == InitExcerpt /\ [][NextExcerpt]_vars

(***************************************************************************)
(* SpecMain: main() and InputProcessor, for a pull request on which the    *)
(* action runs up to MaxRuns times. The texts main and InputProcessor      *)
(* take apart (inputs, commit ids, summaries, comment bodies) are          *)
(* sequences of characters.                                                *)
(***************************************************************************)
\* the runs of the action on the pull request
MaxRuns == 2

\* constants.AI_REVIEW_COMMENT_PREFIX
AI_REVIEW_COMMENT_PREFIX ==
    << "A", "I", " ", "r", "e", "v", "i", "e", "w", " ", "d", "o", "n",
       "e", " ", "u", "p", " ", "t", "o", " ", "c", "o", "m", "m", "i",
       "t", ":", " " >>

\* constants.SUMMARY_SEPARATOR
SUMMARY_SEPARATOR ==
    << "\n", "\n", "#", "#", "#", " ", "A", "I", " ", "R", "e", "v", "i",
       "e", "w", " ", "S", "u", "m", "m", "a", "r", "y", ":", "\n" >>

\* String.prototype.trim
trim(str) ==
    LET keep == {k \in 1..Len(str) : str[k] \notin {" ", "\n", "\t", "\r"}}
    IN  IF keep = {} THEN <<>>
        ELSE SubSeq(str, CHOOSE k \in keep : \A j \in keep : k <= j,
                         CHOOSE k \in keep : \A j \in keep : j <= k)

\* String.prototype.indexOf, counted from 1; 0 when there is no occurrence
indexOf(str, searchString) ==
    LET at == {k \in 1..(Len(str) - Len(searchString) + 1) :
                  SubSeq(str, k, k + Len(searchString) - 1) = searchString}
    IN  IF at = {} THEN 0 ELSE CHOOSE k \in at : \A j \in at : k <= j

\* String.prototype.startsWith
startsWith(str, searchString) ==
    /\ Len(searchString) <= Len(str)
    /\ SubSeq(str, 1, Len(searchString)) = searchString

\* str.split(separator)[0], for a separator that is not empty
splitFirst(str, separator) ==
    IF indexOf(str, separator) = 0 THEN str
    ELSE SubSeq(str, 1, indexOf(str, separator) - 1)

\* String.prototype.replace with a string pattern: the first occurrence only
replace(str, pattern, replacement) ==
    IF indexOf(str, pattern) = 0 THEN str
    ELSE SubSeq(str, 1, indexOf(str, pattern) - 1) \o replacement
         \o SubSeq(str, indexOf(str, pattern) + Len(pattern), Len(str))

\* String.prototype.toLowerCase, for the letters of the inputs
toLowerCase(str) ==
    [k \in 1..Len(str) |->
        IF str[k] = "T" THEN "t" ELSE IF str[k] = "R" THEN "r"
        ELSE IF str[k] = "U" THEN "u" ELSE IF str[k] = "E" THEN "e" ELSE str[k]]

\* sanitizeString with the default context (the inputs are shorter than
\* maxLen): trims, then removes /[\u0000-\u001F\u007F]/; U+0001 stands for
\* the control characters that are not whitespace
sanitizeString(value) ==
    SelectSeq(trim(value), LAMBDA ch : ch \notin {"U+0001", "\n", "\t", "\r"})

\* sanitizeBool of a string: /^(true|1)$/i.test(value.trim())
sanitizeBool(value) ==
    toLowerCase(trim(value)) \in {<<"t", "r", "u", "e">>, <<"1">>}

\* Number.isNaN(Number(value)) of a string: a string that is not a numeral
\* (the model's numerals are runs of digits; a blank string is 0)
isNaN(value) ==
    \E k \in 1..Len(trim(value)) :
        trim(value)[k] \notin {"0", "1", "2", "3", "4", "5", "6", "7", "8", "9"}

\* Number(value) of a string that is a numeral
RECURSIVE Number(_)
Number(value) ==
    LET str == trim(value)
        digits == <<"0", "1", "2", "3", "4", "5", "6", "7", "8", "9">>
    IN  IF str = <<>> THEN 0
        ELSE 10 * Number(SubSeq(str, 1, Len(str) - 1))
             + (CHOOSE d \in 0..9 : digits[d + 1] = str[Len(str)])

\* sanitizeNumber where it does not throw (it throws when isNaN): Math.max
sanitizeNumber(value, min) == Max(Number(value), min)

\* what core.getInput returns for the inputs the model varies; the other
\* required inputs are supplied and valid
Inputs ==
    [pr_number : {<<"7">>, <<"a", "b", "c">>},
     token : {<<"g", "h", "p">>, <<"U+0001">>},
     fail_action_if_review_failed :
        {<<"f", "a", "l", "s", "e">>, <<"t", "r", "u", "e">>, <<"T", "R", "U", "E">>, <<>>}]

\* pullRequestData.head.sha, pullRequestData.base.sha
Shas == {<<"a", "1">>, <<"b", "2">>}
BaseSha == <<"c", "0">>

\* the summaries doReview may return: none (the Anthropic adapter after its
\* last failed attempt), blank, plain, and one that quotes a marker comment
QuotingSummary ==
    <<"s", "e", "e">> \o SUMMARY_SEPARATOR \o AI_REVIEW_COMMENT_PREFIX \o <<"f", "f", " ", "x">>

Summaries ==
    {<<>>, <<" ", "\n">>, <<"L", "G", "T", "M">>, <<"o", "k", " ", "n", "o", "w">>,
     QuotingSummary}

\* the comment main posts
commentBody(headCommit, reviewSummary) ==
    AI_REVIEW_COMMENT_PREFIX \o headCommit \o SUMMARY_SEPARATOR \o reviewSummary

\* comments the pull request may carry before the first run: a reviewer's,
\* and the marker of a run of long ago
UserComment == <<"n", "i", "c", "e">>
OldSha == <<"0", "f">>
OldMarker == commentBody(OldSha, <<"o", "l", "d">>)

\* a find that takes the oldest marker
lastReviewComment_Oldest(comments) ==
    LET markers == {k \in 1..Len(comments) :
                      comments[k] # <<>> /\ startsWith(comments[k], AI_REVIEW_COMMENT_PREFIX)}
    IN  IF markers = {} THEN 0 ELSE CHOOSE k \in markers : \A j \in markers : k <= j

\* [...comments].reverse().find(c => c.body && c.body.startsWith(PREFIX)):
\* the position of the comment found, 0 when there is none
lastReviewComment(comments) ==
    LET markers == {k \in 1..Len(comments) :
                      comments[k] # <<>> /\ startsWith(comments[k], AI_REVIEW_COMMENT_PREFIX)}
    IN  IF markers = {} THEN 0 ELSE CHOOSE k \in markers : \A j \in markers : j <= k

\* newBaseCommit of _processChangedFiles
newBaseCommit(body) ==
    trim(splitFirst(replace(splitFirst(body, SUMMARY_SEPARATOR),
                            AI_REVIEW_COMMENT_PREFIX, <<>>),
                    <<" ">>))

\* any string is taken for a summary
validSummary_Any(reviewSummary) == TRUE

\* the test main makes of what doReview returned (it returns strings)
validSummary(reviewSummary) ==
    reviewSummary # <<>> /\ trim(reviewSummary) # <<>>

\* new InputProcessor(): _failAction is true until _readInputs assigns it
NewRun(n, inputs) ==
    [n |-> n, inputs |-> inputs, pc |-> "start", failAction |-> TRUE,
     pullNumber |-> 0, headCommit |-> <<>>, baseCommit |-> <<>>,
     filteredDiffs |-> 0, agent |-> FALSE, body |-> <<>>, postCalls |-> 0,
     result |-> "running", error |-> ""]

\* the catch block of main
mainCatch(r, errorMessage) ==
    [r EXCEPT !.pc = "ended",
              !.result = IF ~r.failAction THEN "warning" ELSE "failed",
              !.error = errorMessage]

InitMain ==
    /\ run \in {NewRun(1, i) : i \in Inputs}
    /\ prComments \in {<<>>, <<UserComment>>, <<OldMarker>>}
    /\ cm = NoCm
    /\ commentatorCalls = <<>>
    /\ ReviewIdle

idleVars == <<cm, commentatorCalls, adapter, pc, reviewState, message, calls,
              fileCache, cacheMutex, modelCalls, request, retries, backoff>>

\* processInputs up to its first await: _readInputs, _validateInputs, and the
\* getPullRequest call of _setupGitHubAPI
ProcessInputs ==
    /\ run.pc = "start"
    /\ LET read == [run EXCEPT
                      !.pullNumber = sanitizeNumber(run.inputs.pr_number, 1),
                      !.failAction = sanitizeBool(run.inputs.fail_action_if_review_failed)]
       IN  run' = IF isNaN(run.inputs.pr_number)
                  THEN mainCatch(run, "Expected a number")
                  ELSE IF sanitizeString(run.inputs.token) = <<>>
                  THEN mainCatch(read, "GitHub token is required.")
                  ELSE [read EXCEPT !.pc = "awaitPullRequest"]
    /\ UNCHANGED <<prComments, idleVars, outcome>>

\* getPullRequest resolves; _processChangedFiles calls listPRComments
PullRequestResolves ==
    /\ run.pc = "awaitPullRequest"
    /\ \E sha \in Shas :
         run' = [run EXCEPT !.headCommit = sha, !.baseCommit = BaseSha,
                            !.pc = "awaitComments"]
    /\ UNCHANGED <<prComments, idleVars, outcome>>

\* listPRComments resolves: the last marker, if any, gives the base commit;
\* getFilesBetweenCommits is called
CommentsListed ==
    /\ run.pc = "awaitComments"
    /\ LET found == lastReviewComment(prComments)
       IN  run' = [run EXCEPT
                     !.baseCommit = IF found # 0 /\ newBaseCommit(prComments[found]) # <<>>
                                    THEN newBaseCommit(prComments[found])
                                    ELSE @,
                     !.pc = "awaitFiles"]
    /\ UNCHANGED <<prComments, idleVars, outcome>>

\* a main that reviews whatever the number of files
noFilesToReview_Never(filteredDiffs) == FALSE

\* main: inputProcessor.filteredDiffs.length === 0
noFilesToReview(filteredDiffs) == filteredDiffs = 0

\* getFilesBetweenCommits resolves and the files are filtered; the review
\* rules are loaded (a failure there is only a warning) and the tools set
\* up; with no file left main returns, otherwise it creates the agent
\* (getAIAgent) and calls doReview
FilesListed ==
    /\ run.pc = "awaitFiles"
    /\ \E n \in 0..1 :
         run' = IF noFilesToReview(n)
                THEN [run EXCEPT !.filteredDiffs = n, !.pc = "ended",
                                 !.result = "no_files"]
                ELSE [run EXCEPT !.filteredDiffs = n, !.agent = TRUE,
                                 !.pc = "awaitReview"]
    /\ UNCHANGED <<prComments, idleVars, outcome>>

\* a call of the GitHub API that main or processInputs awaits rejects
GitHubCallRejects ==
    /\ run.pc \in {"awaitPullRequest", "awaitComments", "awaitFiles", "awaitPost"}
    /\ run' = mainCatch(run, "Bad credentials")
    /\ UNCHANGED <<prComments, idleVars, outcome>>

\* doReview returns: main tests the summary and calls createPRComment
DoReviewReturns ==
    /\ run.pc = "awaitReview"
    /\ \E reviewSummary \in Summaries :
         /\ outcome' = Returned("returned", reviewSummary)
         /\ run' = IF ~validSummary(reviewSummary)
                   THEN mainCatch(run, "AI Agent did not return a valid review summary")
                   ELSE [run EXCEPT !.body = commentBody(run.headCommit, reviewSummary),
                                    !.postCalls = @ + 1,
                                    !.pc = "awaitPost"]
    /\ UNCHANGED <<prComments, idleVars>>

\* doReview throws (the OpenAI adapter)
DoReviewThrows ==
    /\ run.pc = "awaitReview"
    /\ outcome' = Returned("thrown", "503 Service Unavailable")
    /\ run' = mainCatch(run, "503 Service Unavailable")
    /\ UNCHANGED <<prComments, idleVars>>

\* createPRComment resolves: the comment is on the pull request
CommentPosted ==
    /\ run.pc = "awaitPost"
    /\ prComments' = Append(prComments, run.body)
    /\ run' = [run EXCEPT !.pc = "ended", !.result = "posted"]
    /\ UNCHANGED <<idleVars, outcome>>

\* the workflow is triggered again, with the same inputs; a reviewer may
\* have commented in between
NextRun ==
    /\ run.pc = "ended"
    /\ run.n < MaxRuns
    /\ run' = NewRun(run.n + 1, run.inputs)
    /\ prComments' \in {prComments, Append(prComments, UserComment)}
    /\ outcome' = <<>>
    /\ UNCHANGED idleVars

NextMain ==
    \/ ProcessInputs
    \/ PullRequestResolves
    \/ CommentsListed
    \/ FilesListed
    \/ GitHubCallRejects
    \/ DoReviewReturns
    \/ DoReviewThrows
    \/ CommentPosted
    \/ NextRun

SpecMain == InitMain /\ [][NextMain]_vars

(***************************************************************************)
(* Claims about addReviewComment (SpecComment).                            *)
(***************************************************************************)
ValidBounds(a) ==
    /\ isInteger(a.startLineNumber)
    /\ isInteger(a.endLineNumber)
    /\ 1 <= a.startLineNumber.n
    /\ a.startLineNumber.n <= a.endLineNumber.n

\* the call has run its synchronous part
CommentCalled == cm.pc # "called"

C8_InvalidBoundsReturnError ==
    (CommentCalled /\ ~ValidBounds(cm)) =>
        /\ cm.pc = "returned"
        /\ cm.value \in {"Error: Start line number must be a positive integer",
                         "Error: End line number must be a positive integer",
                         "Error: Start line number cannot be greater than end line number"}
        /\ commentatorCalls = <<>>

\* C9: side is validated as the third check: with valid bounds and a side
\* outside {LEFT, RIGHT} the call returns an error string and dispatches
\* nothing; a comment is dispatched only with side LEFT or RIGHT.
C9_SideValidated ==
    /\ (CommentCalled /\ ValidBounds(cm) /\ cm.side \notin {"LEFT", "RIGHT", Omitted}) =>
           /\ cm.pc = "returned"
           /\ cm.value # SuccessText
           /\ commentatorCalls = <<>>
    /\ \A i \in 1..Len(commentatorCalls) : commentatorCalls[i].side \in {"LEFT", "RIGHT"}

(***************************************************************************)
(* Claims about the review loop (Spec).                                    *)
(***************************************************************************)
\* a response with tool calls is in hand
BatchInHand == message # <<>> /\ message.valid /\ Len(message.tool_calls) > 0

CallOf(i) == message.tool_calls[i].call

IsMarkAsDone(c) == c.name = "mark_as_done" /\ c.wellFormed

MarkCalls == {i \in 1..Len(message.tool_calls) : IsMarkAsDone(CallOf(i))}

\* the number of tool results in the history that carry identifier id
ResultCount(id) ==
    LET h == reviewState.messageHistory
    IN  IF adapter = "openai"
        THEN Cardinality({k \in 1..Len(h) : h[k].role = "tool" /\ h[k].tool_call_id = id})
        ELSE Cardinality({p \in (1..Len(h)) \X (1..Len(message.tool_calls)) :
                            /\ h[p[1]].role = "user"
                            /\ p[2] <= Len(h[p[1]].content)
                            /\ h[p[1]].content[p[2]].type = "tool_result"
                            /\ h[p[1]].content[p[2]].tool_use_id = id})

\* the tool results in the history that carry identifier id
ResultsFor(id) ==
    LET h == reviewState.messageHistory
    IN  IF adapter = "openai"
        THEN {h[k].content : k \in {k \in 1..Len(h) : h[k].role = "tool" /\ h[k].tool_call_id = id}}
        ELSE {h[p[1]].content[p[2]].content :
                p \in {p \in (1..Len(h)) \X (1..Len(message.tool_calls)) :
                            /\ h[p[1]].role = "user"
                            /\ p[2] <= Len(h[p[1]].content)
                            /\ h[p[1]].content[p[2]].type = "tool_result"
                            /\ h[p[1]].content[p[2]].tool_use_id = id}}

\* the replies of the batch in hand have been pushed to the history
BatchCollected == BatchInHand /\ calls # <<>> /\ AllSettled /\ pc # "tools"

\* C1: when the batch of a model turn (up to the last turn maxIterations
\* allows) contains a mark_as_done call, the review returns that call's
\* brief_summary and no model call is issued after that batch.
C1_MarkAsDoneEndsReview ==
    (BatchInHand /\ MarkCalls # {} /\ modelCalls <= MAX_REVIEW_ITERATIONS) =>
        /\ pc \in {"handle", "tools", "done"}
        /\ pc = "done" => /\ outcome.how = "mark_as_done"
                          /\ \E i \in MarkCalls : outcome.value = CallOf(i).text

\* C2 as stated: when a batch contains mark_as_done, no fileContentGetter and
\* no fileCommentator call is made for any other tool call of the batch.
C2_OtherCallsNotExecuted ==
    (BatchInHand /\ MarkCalls # {} /\ calls # <<>>) =>
        \A i \in DOMAIN calls : ~calls[i].fetched /\ ~calls[i].dispatched

\* C2 as amended: when a batch contains mark_as_done, the other calls of the
\* batch are executed all the same: once the batch is collected every call
\* other than mark_as_done has exactly one tool result in messageHistory, the
\* mark_as_done calls have none, and every add_review_comment call with a valid
\* line range has had its comment dispatched to fileCommentator.
C2_OtherCallsExecuted ==
    (BatchCollected /\ MarkCalls # {}) =>
        \A i \in DOMAIN calls :
            /\ i \in MarkCalls => ResultCount(message.tool_calls[i].id) = 0
            /\ i \notin MarkCalls => ResultCount(message.tool_calls[i].id) = 1
            /\ (CallOf(i).name = "add_review_comment" /\ CallOf(i).wellFormed
                  /\ ValidBounds(CommentArgs(CallOf(i)))) => calls[i].dispatched

C2_Witness ==
    /\ pc = "done"
    /\ outcome.how = "mark_as_done"
    /\ BatchCollected
    /\ Len(message.tool_calls) = 2
    /\ CallOf(1) = MarkDone("LGTM")
    /\ CallOf(2) = CommentA
    /\ calls[2].dispatched
    /\ ResultCount(message.tool_calls[2].id) = 1

\* C3: whenever a follow-up model call is issued, every tool call of the
\* preceding response has exactly one tool result in messageHistory carrying
\* its identifier, and no tool call of that turn is still executing.
C3_TurnFullyAnswered ==
    (pc = "awaitModel" /\ modelCalls > 1) =>
        /\ AllSettled
        /\ \A i \in 1..Len(message.tool_calls) :
              ResultCount(message.tool_calls[i].id) = 1

\* C4: iterationCount increases by one per model round-trip, and the loop
\* returns the instant iterationCount reaches maxIterations: no tool call of
\* the response in hand is executed and no further model call is issued.
C4_ReturnsAtCeiling ==
    /\ pc = "tools" => reviewState.iterationCount = modelCalls
    /\ pc = "awaitModel" => reviewState.iterationCount = modelCalls - 1
    /\ reviewState.iterationCount >= MAX_REVIEW_ITERATIONS => pc = "done"

\* C5: the model calls issued in one review (one processReview attempt),
\* the initial call included, never exceed maxIterations.
C5_ModelCallsBounded == modelCalls <= MAX_REVIEW_ITERATIONS

\* C6: doReview ends in one of three ways: with a summary (from mark_as_done
\* or from a reply without tool calls), with the iteration-ceiling fallback,
\* or with an error propagating out of doReview.
C6_ThreeExits ==
    pc = "done" => outcome.how \in {"mark_as_done", "no_tool_calls", "ceiling", "thrown"}

\* C6, the termination half: under FairSpec every doReview ends
C6_Terminates == <>(pc = "done")

\* C10: when fileCommentator rejects a dispatched comment, addReviewComment
\* does not throw; it returns the string that tells the model the lines must
\* be part of the diff, followed by the collaborator's message, and the review
\* continues with that string as the call's tool result.
C10_RejectedCommentBecomesToolResult ==
    BatchInHand =>
        \A i \in DOMAIN calls :
            (CallOf(i).name = "add_review_comment" /\ calls[i].pc = "settled"
               /\ calls[i].failure # "") =>
                /\ calls[i].toolOutput = Text(DiffHint \o calls[i].failure)
                /\ ~calls[i].isError
                /\ pc # "tools" => ResultsFor(message.tool_calls[i].id)
                                     = {Text(DiffHint \o calls[i].failure)}
                /\ ~(pc = "done" /\ outcome.how \in {"thrown", "error_swallowed"}
                       /\ modelCalls = message.tool_calls[i].id.turn)

C10_Witness ==
    /\ pc = "awaitModel"
    /\ BatchInHand
    /\ calls # <<>>
    /\ \E i \in DOMAIN calls :
          /\ CallOf(i).name = "add_review_comment"
          /\ calls[i].failure = "line must be part of the diff"
          /\ ResultsFor(message.tool_calls[i].id) =
               {Text("Error! Please ensure that the lines you specify for the comment are part of the DIFF! Error message: line must be part of the diff")}

(***************************************************************************)
(* Claims about repeated content requests (Spec).                          *)
(***************************************************************************)
\* tool call i of the batch in hand is a get_file_content call
IsGetFileContent(i) == CallOf(i).name = "get_file_content" /\ CallOf(i).wellFormed

\* the (path, start, end) triple of call i was requested by a get_file_content
\* call of an earlier model turn of this review, as the history records it
RequestedInEarlierTurn(i) ==
    LET h == reviewState.messageHistory
        t == message.tool_calls[i].id.turn
        same(id, c) == /\ id.turn < t
                       /\ c.name = "get_file_content"
                       /\ c.wellFormed
                       /\ fileRequestKey(c) = fileRequestKey(CallOf(i))
    IN  \E k \in 1..Len(h) :
            /\ h[k].role = "assistant"
            /\ IF adapter = "openai"
               THEN \E j \in 1..Len(h[k].tool_calls) :
                        same(h[k].tool_calls[j].id, h[k].tool_calls[j].call)
               ELSE \E j \in 1..Len(h[k].content) :
                        /\ h[k].content[j].type = "tool_use"
                        /\ same(h[k].content[j].id, h[k].content[j].input)

\* the request passes the argument checks of getFileContentWithCache
ValidRequest(c) == getFileContentArgumentError(c) = Null

\* call i got the notice and never reached the content cache or the fetch
GotNotice(i) ==
    /\ calls[i].pc \in {"pending", "settled"}
    /\ ~calls[i].fetched
    /\ calls[i].pc = "settled" =>
          /\ calls[i].toolOutput = PreviouslyProvided(CallOf(i))
          /\ pc # "tools" =>
                ResultsFor(message.tool_calls[i].id) = {PreviouslyProvided(CallOf(i))}

C12_SameTurnDuplicateGetsNotice ==
    (BatchInHand /\ calls # <<>> /\ adapter = "anthropic" /\ AllSettled) =>
        \A i, j \in DOMAIN calls :
            (/\ i < j
             /\ IsGetFileContent(i) /\ IsGetFileContent(j)
             /\ ValidRequest(CallOf(i))
             /\ fileRequestKey(CallOf(i)) = fileRequestKey(CallOf(j))
             /\ ~RequestedInEarlierTurn(i))
                => /\ calls[j].toolOutput = PreviouslyProvided(CallOf(j))
                   /\ ~calls[j].fetched

\* the fetch that tool call i of the batch in hand started has failed
FetchFailed(i) ==
    /\ IsGetFileContent(i)
    /\ calls[i].pc = "settled"
    /\ calls[i].fetched
    /\ calls[i].failure # ""

\* C18: when the fetch of a get_file_content call fails, the call has made
\* its one fetch attempt and is over, has added no entry for its path to the
\* cache, has released the cache lock (the lock is free once the calls of the
\* batch are over), and yields the "Error getting file content" string, which
\* becomes the tool result; the review goes on to the next model call.
C18_FetchFailureBecomesToolResult ==
    (BatchInHand /\ calls # <<>>) =>
        \A i \in DOMAIN calls :
            FetchFailed(i) =>
                /\ calls[i].toolOutput = ErrorGettingFileContent(calls[i].failure)
                /\ ~calls[i].isError
                /\ InCache(fileCache, CallOf(i).path) =>
                      \E j \in DOMAIN calls \ {i} :
                          /\ CallOf(j).path = CallOf(i).path
                          /\ calls[j].fetched /\ calls[j].pc = "settled" /\ calls[j].failure = ""
                /\ AllSettled => ~cacheMutex.locked
                /\ pc # "tools" =>
                      /\ ResultsFor(message.tool_calls[i].id)
                            = {ErrorGettingFileContent(calls[i].failure)}
                      /\ MarkCalls = {} => modelCalls > message.tool_calls[i].id.turn

\* the ways processReview returns a summary
Succeeded == pc = "done" /\ outcome.how \in {"mark_as_done", "no_tool_calls", "ceiling"}

\* the summary handleMessageResponse returns from reviewState
AttemptSummaries ==
    {reviewState.summary, CompletedText(reviewState), TerminatedText(adapter, reviewState)}

\* what a step of AnthropicAgent.doReview may do to the retry loop
RetryStep ==
    /\ retries' \in {retries, retries + 1}
    /\ (retries' = retries + 1) => (pc = "backoff" /\ pc' = "start")
    /\ (pc' = "start" /\ pc # "start") => (pc = "backoff" /\ retries' = retries + 1)
    /\ (pc' = "backoff" /\ pc # "backoff") =>
          /\ pc \in {"awaitModel", "handle"}
          /\ pc = "handle" => ~message.valid
    /\ pc = "done" => UNCHANGED vars

\* C19: AnthropicAgent.doReview runs processReview at most maxRetries (3)
\* times, attempt k + 1 only after attempt k failed and the backoff elapsed;
\* it stops at the first attempt that succeeds, returning that attempt's
\* summary; the backoff after attempt k + 1 is initialBackoff * 2^k plus a
\* jitter below one second, so its base doubles with each attempt.
C19_RetriesWholeReview ==
    /\ [](adapter = "anthropic" =>
            /\ retries \in 0..(maxRetries - 1)
            /\ pc = "backoff" =>
                  /\ retries < maxRetries - 1
                  /\ backoff - initialBackoff * (2 ^ retries) \in 0..999
            /\ pc # "backoff" => backoff = 0
            /\ Succeeded => outcome.value \in AttemptSummaries)
    /\ [][adapter = "anthropic" => RetryStep]_vars

C19_Witness ==
    /\ adapter = "anthropic"
    /\ retries = 2
    /\ pc = "done"
    /\ outcome = Returned("mark_as_done", "LGTM")

\* C20: when every attempt has failed, doReview raises an error to its caller
\* (it does not return normally) and the error carries a message.
C20_RaisesAfterLastAttempt ==
    (adapter = "anthropic" /\ pc = "done" /\ ~Succeeded) =>
        /\ retries = maxRetries - 1
        /\ outcome.how = "thrown"
        /\ outcome.value # ""

(***************************************************************************)
(* Claims about the content cache (SpecCache). The callers are served in   *)
(* order of arrival, so the paths of the calls whose fetch succeeded, in   *)
(* the order of calls, are the insertions into the cache in order.         *)
(***************************************************************************)
\* call i invoked fileContentGetter and stored what it returned
FetchedOk(i) == calls[i].fetched /\ calls[i].pc = "settled" /\ calls[i].failure = ""

\* the paths inserted into the cache by the first n callers, in order
InsertLog(n) ==
    LET idx == SelectSeq([k \in 1..n |-> k], LAMBDA k : FetchedOk(k))
    IN  [j \in 1..Len(idx) |-> CallOf(idx[j]).path]

LastN(seq, n) ==
    IF Len(seq) <= n THEN seq ELSE SubSeq(seq, Len(seq) - n + 1, Len(seq))

\* the paths a first-in first-out cache holds when caller i gets the lock
CachedBefore(i) == LastN(InsertLog(i - 1), MAX_CACHE_ENTRIES)

InSeq(seq, x) == \E k \in 1..Len(seq) : seq[k] = x

\* caller i gave up waiting for the lock
TimedOut(i) == calls[i].pc = "settled" /\ calls[i].toolOutput = ErrorGettingFileContent(LockTimeout)

\* C13: fileContentGetter is invoked at most once for a path between the
\* path's insertion into the cache and its eviction: at most one fetch is in
\* flight at a time, a fetch is only started for a path that is not cached,
\* and so two calls racing on an uncached path cause a single fetch.
C13_OneFetchPerCachedPath ==
    /\ Cardinality({i \in DOMAIN calls : calls[i].pc \in {"lockGranted", "awaitFetch"}}) <= 1
    /\ \A i \in DOMAIN calls :
          /\ calls[i].pc = "awaitFetch" => ~InCache(fileCache, CallOf(i).path)
          /\ calls[i].fetched => ~InSeq(CachedBefore(i), CallOf(i).path)
    /\ \A i, j \in DOMAIN calls :
          (i < j /\ CallOf(i).path = CallOf(j).path /\ FetchedOk(i) /\ calls[j].fetched)
              => Cardinality({k \in (i + 1)..(j - 1) : FetchedOk(k)}) >= MAX_CACHE_ENTRIES

C13_Witness ==
    /\ Len(calls) >= 2
    /\ CallOf(1) = GetFileA
    /\ CallOf(2) = GetFileA
    /\ calls[2].queued
    /\ FetchedOk(1)
    /\ calls[2].pc = "settled"
    /\ ~calls[2].fetched
    /\ calls[2].toolOutput = Excerpt("a.js", Num(1), Num(2))

\* the range of caller i violates startLine >= 1 or endLine >= startLine, or
\* a bound is not an integer
InvalidRange(i) == CallOf(i).path # "" /\ ~ValidBounds(CallOf(i))

\* C17 as stated: a request with an invalid range fails with the validation
\* error of the comment emitter (validateLineNumbers), which names the bound
\* that is invalid; no fileContentGetter call is made, the cache is unchanged.
C17_InvalidRangeNamesBound ==
    \A i \in DOMAIN calls :
        InvalidRange(i) =>
            /\ calls[i].pc = "thrown"
            /\ calls[i].toolOutput =
                  Text(validateLineNumbers(CallOf(i).startLineNumber, CallOf(i).endLineNumber))
            /\ ~calls[i].fetched

\* C17 as amended: a request with an invalid range fails (throws) with the
\* one message "Invalid line numbers provided" of a check of its own, which
\* rejects exactly the ranges validateLineNumbers rejects; the caller never
\* takes the lock, makes no fileContentGetter call and leaves the cache as
\* it is (a cached path was fetched by a caller with valid arguments).
C17_InvalidRangeRejected ==
    /\ \A i \in DOMAIN calls :
          /\ InvalidRange(i) =>
                /\ calls[i].pc = "thrown"
                /\ calls[i].toolOutput = Text("Invalid line numbers provided")
                /\ ~calls[i].fetched
                /\ ~calls[i].queued
                /\ ~InSeq(cacheMutex.waiting, i)
          /\ CallOf(i).path # "" =>
                (InvalidRange(i) <=>
                    validateLineNumbers(CallOf(i).startLineNumber, CallOf(i).endLineNumber) # Null)
    /\ \A k \in 1..Len(fileCache) :
          \E j \in DOMAIN calls :
              /\ CallOf(j).path = fileCache[k]
              /\ ValidBounds(CallOf(j))
              /\ FetchedOk(j)

C17_Witness ==
    /\ Len(calls) = 3
    /\ CallOf(1) = GetFileA /\ FetchedOk(1)
    /\ CallOf(2) = GetFileZeroStart /\ calls[2].pc = "thrown"
    /\ CallOf(3) = GetFileBadRange /\ calls[3].pc = "thrown"
    /\ fileCache = <<"a.js">>

\* C14: the content cache never holds more than MAX_CACHE_ENTRIES entries,
\* in particular after every completed call and whenever the lock is free.
C14_CacheBounded == Len(fileCache) <= MAX_CACHE_ENTRIES

C14_Witness ==
    /\ Len(InsertLog(Len(calls))) > MAX_CACHE_ENTRIES
    /\ Len(fileCache) = MAX_CACHE_ENTRIES
    /\ ~cacheMutex.locked

\* C15: eviction is first-in first-out by insertion: the cache holds the last
\* MAX_CACHE_ENTRIES inserted paths in order of insertion, whatever hits
\* happened in between, and a caller fetches exactly when its path is not
\* among them (so a request for an evicted path fetches afresh).
C15_EvictionIsFifo ==
    /\ fileCache = LastN(InsertLog(Len(calls)), MAX_CACHE_ENTRIES)
    /\ \A i \in DOMAIN calls :
          (calls[i].pc = "settled" /\ ~TimedOut(i)) =>
              (calls[i].fetched <=> ~InSeq(CachedBefore(i), CallOf(i).path))

C15_Witness ==
    /\ Len(calls) = 4
    /\ CallOf(1) = GetFileA /\ FetchedOk(1)
    /\ CallOf(2) = GetFileB /\ FetchedOk(2)
    /\ CallOf(3) = GetFileA /\ calls[3].pc = "settled" /\ ~calls[3].fetched /\ ~TimedOut(3)
    /\ CallOf(4) = GetFileC /\ FetchedOk(4)
    /\ fileCache = <<"b.js", "c.js">>

(***************************************************************************)
(* Claims about the excerpt (SpecExcerpt).                                 *)
(***************************************************************************)
\* line n of the file of the call in hand; a terminated file has after its
\* last line one more, empty piece
PieceOf(n) == IF n <= cm.lineCount THEN LineText(n) ELSE ""

\* the pieces content.split yields for that file (lines.length)
PieceCount ==
    IF cm.lineCount = 0 THEN 1
    ELSE IF cm.terminated THEN cm.lineCount + 1 ELSE cm.lineCount

\* the numbered lines first..last of the file, labels padded to width
NumberedLines(first, last, width) ==
    [k \in 1..(last - first + 1) |->
        padStart(ToString(first + k - 1), width) \o ": " \o PieceOf(first + k - 1)]

\* C16 as stated: for a file of lineCount lines and a valid range the call
\* returns exactly the lines max(1, startLine - SPAN) through
\* min(lineCount, endLine + SPAN), in order, each labelled with its position.
C16_ExcerptOfFileLines ==
    cm.pc = "returned" =>
        cm.value.numberedLines =
            NumberedLines(Max(1, cm.startLineNumber - LINE_SPAN),
                          Min(cm.lineCount, cm.endLineNumber + LINE_SPAN),
                          Max(4, Len(ToString(cm.lineCount))))

\* C16 as amended: the same with lineCount read as the number of pieces
\* content.split(/\r?\n/) yields, which for a text that ends with a line
\* terminator is the number of its lines plus one, the last piece empty.
C16_ExcerptOfSplitPieces ==
    cm.pc = "returned" =>
        /\ cm.value.fence = cm.fileName
        /\ cm.value.numberedLines =
              NumberedLines(Max(1, cm.startLineNumber - LINE_SPAN),
                            Min(PieceCount, cm.endLineNumber + LINE_SPAN),
                            Max(4, Len(ToString(PieceCount))))

\* the scenario of the claim: 30 lines, SPAN = 20, the range (5, 15)
C16_Witness ==
    /\ cm.pc = "returned"
    /\ cm.lineCount = 30
    /\ ~cm.terminated
    /\ cm.startLineNumber = 5
    /\ cm.endLineNumber = 15
    /\ Len(cm.value.numberedLines) = 30
    /\ cm.value.numberedLines[1] = "   1: line 1"
    /\ cm.value.numberedLines[30] = "  30: line 30"

(***************************************************************************)
(* Claims about errors in the review loop (Spec).                          *)
(***************************************************************************)
\* the turn in which the response in hand arrived
TurnInHand == message.tool_calls[1].id.turn

\* tool call i of the batch in hand is over and met a tool-execution error;
\* the value is the text the error is reported with, Null when it met none
ToolExecutionError(i) ==
    LET c == CallOf(i)
    IN  IF calls[i].pc # "settled" THEN Null
        ELSE IF ~c.wellFormed /\ c.name \in KnownTools
        THEN IF adapter = "openai" THEN "Error: Unexpected end of JSON input"
             ELSE "Error: Cannot destructure property of undefined"
        ELSE IF c.name \notin KnownTools
        THEN "Unknown tool: " \o c.name
        ELSE IF c.name = "get_file_content" /\ ~ValidBounds(c)
        THEN "Error: Invalid line numbers provided"
        ELSE IF c.name = "get_file_content" /\ calls[i].fetched /\ calls[i].failure # ""
        THEN "Error getting file content: " \o calls[i].failure
        ELSE IF c.name = "add_review_comment" /\ ~ValidBounds(c)
        THEN IF ~isInteger(c.startLineNumber) \/ c.startLineNumber.n < 1
             THEN "Error: Start line number must be a positive integer"
             ELSE IF ~isInteger(c.endLineNumber) \/ c.endLineNumber.n < 1
             THEN "Error: End line number must be a positive integer"
             ELSE "Error: Start line number cannot be greater than end line number"
        ELSE IF c.name = "add_review_comment" /\ calls[i].dispatched /\ calls[i].failure # ""
        THEN DiffHint \o calls[i].failure
        ELSE Null

\* C21: a tool-execution error (invalid line range, malformed arguments, a
\* failed fetch, a rejected comment, an unknown tool) becomes the tool result
\* of the call that caused it; the turn then ends as every turn does, with
\* the follow-up model call of the same attempt or with the summary of a
\* mark_as_done call of the batch; no step taken while the tool calls run
\* fails the review or counts a retry.
C21_ToolErrorsAbsorbed ==
    /\ []((BatchInHand /\ calls # <<>>) =>
            \A i \in DOMAIN calls :
                ToolExecutionError(i) # Null =>
                    /\ calls[i].toolOutput = Text(ToolExecutionError(i))
                    /\ pc # "tools" =>
                          ResultsFor(message.tool_calls[i].id) = {Text(ToolExecutionError(i))}
                    /\ (pc # "tools" /\ MarkCalls = {}) => modelCalls = TurnInHand + 1
                    /\ modelCalls = TurnInHand =>
                          /\ pc \in {"tools", "done"}
                          /\ pc = "done" => outcome.how = "mark_as_done")
    /\ [][pc = "tools" =>
            /\ pc' \in {"tools", "awaitModel", "done"}
            /\ retries' = retries
            /\ pc' = "done" => outcome'.how = "mark_as_done"]_vars

C21_Witness ==
    /\ pc = "awaitModel"
    /\ retries = 0
    /\ BatchInHand
    /\ calls # <<>>
    /\ CallOf(1) = UnknownTool
    /\ modelCalls = TurnInHand + 1
    /\ ResultsFor(message.tool_calls[1].id) = {Text("Unknown tool: edit_file")}

\* C22: a protocol error (a missing model response) is fatal to the review:
\* once the loop has seen it, doReview is over with the error; there is no
\* retry, no further model call, and no summary.
C22_ProtocolErrorIsFatal ==
    (message # <<>> /\ ~message.valid /\ pc # "handle") =>
        /\ pc = "done"
        /\ outcome.how \in {"thrown", "error_swallowed"}

\* C23: when a model response has no tool calls the review ends in that
\* turn, returning the text of the response if that is non-empty and the
\* fallback built from the counters otherwise; a first response without
\* tool calls and with empty text gives the fallback with 0 files and 0
\* comments.
C23_NoToolCallsEndsReview ==
    (message # <<>> /\ message.valid /\ Len(message.tool_calls) = 0 /\ pc # "handle") =>
        /\ pc = "done"
        /\ outcome.how = "no_tool_calls"
        /\ outcome.value =
              IF message.hasText /\ message.text # ""
              THEN message.text
              ELSE "Code review completed. Reviewed "
                   \o ToString(Cardinality(reviewState.reviewedFiles)) \o " files with "
                   \o ToString(reviewState.commentsMade) \o " comments."
        /\ (modelCalls = 1 /\ ~(message.hasText /\ message.text # "")) =>
              outcome.value = "Code review completed. Reviewed 0 files with 0 comments."

(***************************************************************************)
(* Claims about the review state (Spec).                                   *)
(***************************************************************************)
\* the positions of the tool results in messageHistory: <<message, block>>
HistoryResults ==
    LET h == reviewState.messageHistory
    IN  IF adapter = "openai"
        THEN {<<k, 1>> : k \in {k \in 1..Len(h) : h[k].role = "tool"}}
        ELSE UNION {{<<k, j>> : j \in {j \in 1..Len(h[k].content) :
                                            h[k].content[j].type = "tool_result"}} :
                       k \in {k \in 1..Len(h) : h[k].role = "user"}}

ResultAt(p) ==
    LET h == reviewState.messageHistory
    IN  IF adapter = "openai" THEN h[p[1]].content ELSE h[p[1]].content[p[2]].content

\* the add_review_comment calls of the review whose comment fileCommentator
\* has accepted: those answered with the success text in the history, and
\* those of the batch that is still running
PublishedComments ==
    Cardinality({p \in HistoryResults : ResultAt(p) = Text(SuccessText)})
    + (IF pc = "tools"
       THEN Cardinality({i \in DOMAIN calls :
                /\ calls[i].pc = "settled"
                /\ calls[i].dispatched
                /\ calls[i].failure = ""})
       ELSE 0)

\* C27: commentsMade never decreases during a review and always equals the
\* number of add_review_comment calls whose comment was dispatched and
\* accepted; a comment that failed validation or was rejected is not counted.
C27_CountsPublishedComments ==
    /\ [](reviewState.commentsMade = PublishedComments)
    /\ [][pc # "start" => reviewState'.commentsMade >= reviewState.commentsMade]_vars

\* C28: once reviewState.summary holds a non-empty value no step of the
\* review overwrites it, also when a batch holds several mark_as_done calls.
C28_SummarySetOnce ==
    [][(pc # "start" /\ Truthy(reviewState.summary)) =>
          reviewState'.summary = reviewState.summary]_vars

IsPrefix(a, b) == Len(a) <= Len(b) /\ SubSeq(b, 1, Len(a)) = a

SystemMessage == [role |-> "system", content |-> "You are an expert code reviewer"]

\* the list a request carries, the system prompt first
SentList(req) ==
    IF req.system = Omitted THEN req.messages
    ELSE << [role |-> "system", content |-> req.system] >> \o req.messages

\* the same list with the cache_control properties taken off the blocks
SentListBare(req) ==
    IF req.system = Omitted THEN req.messages
    ELSE << [role |-> "system", content |-> req.system] >>
         \o [k \in 1..Len(req.messages) |->
                [req.messages[k] EXCEPT !.content =
                    [j \in 1..Len(@) |-> withoutCacheControl(@[j])]]]

\* a model call has just been issued in the course of a review
FollowUp == modelCalls' = modelCalls + 1 /\ modelCalls >= 1

\* C29 as stated: messageHistory only grows by appending, the list sent with
\* a model call is the system prompt followed by the whole history, and the
\* list sent with one call is a prefix of the list sent with the next.
C29_HistoryReplayedAsIs ==
    /\ [][pc # "start" => IsPrefix(reviewState.messageHistory, reviewState'.messageHistory)]_vars
    /\ [](pc = "awaitModel" =>
            SentList(request) = <<SystemMessage>> \o reviewState.messageHistory)
    /\ [][FollowUp => IsPrefix(SentList(request), SentList(request'))]_vars

\* C29 as amended: messageHistory only grows by appending; the list sent
\* with a model call is the system prompt and the whole history, where the
\* Anthropic adapter sends a copy of the history in which the blocks of the
\* latest message, and only those, carry cache_control; cache_control set
\* aside, the list sent with one call is a prefix of the list sent with the
\* next.
C29_HistoryReplayed ==
    /\ [][pc # "start" => IsPrefix(reviewState.messageHistory, reviewState'.messageHistory)]_vars
    /\ [](pc = "awaitModel" =>
            /\ SentListBare(request) = <<SystemMessage>> \o reviewState.messageHistory
            /\ adapter = "anthropic" =>
                  \A k \in 1..Len(request.messages) :
                      \A j \in 1..Len(request.messages[k].content) :
                          ("cache_control" \in DOMAIN request.messages[k].content[j])
                              <=> k = Len(request.messages))
    /\ [][FollowUp => /\ IsPrefix(SentListBare(request), SentListBare(request'))
                      /\ Len(SentListBare(request')) > Len(SentListBare(request))]_vars

C29_Witness ==
    /\ adapter = "anthropic"
    /\ pc = "awaitModel"
    /\ modelCalls = 3
    /\ Len(request.messages) = 5
    /\ request.messages[5].content[1].cache_control = [type |-> "ephemeral"]
    /\ "cache_control" \notin DOMAIN request.messages[3].content[1]

(***************************************************************************)
(* Claims about the concurrent tool calls of a turn (SpecTurn). What the   *)
(* collaborators did to a call is read from the call: whether its fetch or *)
(* its comment failed, and whether its wait for the cache lock timed out.  *)
(***************************************************************************)
\* the reply of call i, as a function of the batch and of what the
\* collaborators did, the calls taken in the order of the response
ReplyInOrder(i) ==
    LET c == CallOf(i)
    IN  IF ArgumentsThrow(adapter, c)
        THEN Text("Error: " \o ArgumentsErrorText(adapter))
        ELSE IF c.name \notin KnownTools
        THEN Text("Unknown tool: " \o c.name)
        ELSE IF c.name = "get_file_content"
        THEN IF TimedOut(i)
             THEN Text("Error getting file content: Timeout while waiting for cache lock")
             ELSE IF calls[i].failure # ""
             THEN Text("Error getting file content: " \o calls[i].failure)
             ELSE Excerpt(c.path, c.startLineNumber, c.endLineNumber)
        ELSE IF c.name = "add_review_comment"
        THEN IF ~ValidBounds(c)
             THEN Text(validateLineNumbers(c.startLineNumber, c.endLineNumber))
             ELSE IF calls[i].failure # ""
             THEN Text(DiffHint \o calls[i].failure)
             ELSE Text(SuccessText)
        ELSE NoReply

CommentCalls == {i \in DOMAIN calls : CallOf(i).name = "add_review_comment"}

ContentCalls == {i \in DOMAIN calls : IsGetFileContent(i)}

\* C30: the state a turn ends in is a function of the response and of what
\* the collaborators returned, whatever the order in which the calls'
\* external operations completed: summary, commentsMade, reviewedFiles,
\* seenToolCalls, the tool result of every call identifier and the cache are
\* those of running the calls one after the other in the order of the
\* response.
C30_CompletionOrderIrrelevant ==
    /\ \A i \in DOMAIN calls :
          calls[i].pc = "settled" =>
              /\ calls[i].toolOutput = ReplyInOrder(i)
              /\ (i \in ContentCalls /\ ~TimedOut(i)) =>
                    (calls[i].fetched <=> ~InSeq(CachedBefore(i), CallOf(i).path))
    /\ AllSettled =>
          /\ reviewState.summary =
                (IF MarkCalls = {} THEN ""
                 ELSE CallOf(CHOOSE i \in MarkCalls : \A j \in MarkCalls : j <= i).text)
          /\ reviewState.commentsMade = Cardinality(CommentCalls)
          /\ reviewState.reviewedFiles = {CallOf(i).path : i \in CommentCalls}
          /\ reviewState.seenToolCalls =
                (IF adapter = "anthropic"
                 THEN {fileRequestKey(CallOf(i)) : i \in ContentCalls}
                 ELSE {})
          /\ fileCache = LastN(InsertLog(Len(calls)), MAX_CACHE_ENTRIES)
          /\ pc # "tools" =>
                /\ \A i \in DOMAIN calls :
                      ResultsFor(message.tool_calls[i].id) =
                          (IF i \in MarkCalls THEN {} ELSE {ReplyInOrder(i)})
                /\ pc = "done" <=> MarkCalls # {}
                /\ pc = "done" => outcome = Returned("mark_as_done", reviewState.summary)

\* the comment of the third call is published while the fetch of the first
\* call is in flight and the second call waits for the lock
C30_Witness ==
    /\ pc = "tools"
    /\ Len(calls) = 3
    /\ CallOf(1) = GetFileA /\ calls[1].pc = "awaitFetch"
    /\ CallOf(2) = GetFileB /\ calls[2].pc = "awaitLock"
    /\ CallOf(3) = CommentA /\ calls[3].pc = "settled" /\ calls[3].dispatched
    /\ reviewState.commentsMade = 1

(***************************************************************************)
(* Claims about main and InputProcessor (SpecMain).                        *)
(***************************************************************************)
\* C24: a run calls createPRComment at most once, and only after doReview
\* returned a string that is not empty; the body is the marker prefix, the
\* head commit sha, the summary separator and the returned summary, in that
\* order; after doReview threw or returned an empty result the run has posted
\* nothing; the comments of the pull request grow within a run only by that
\* one body, when createPRComment resolves.
C24_AtMostOneSummaryComment ==
    /\ [](/\ run.postCalls <= 1
          /\ run.postCalls = 1 =>
               /\ outcome # <<>>
               /\ outcome.how = "returned"
               /\ outcome.value # <<>>
               /\ run.body = AI_REVIEW_COMMENT_PREFIX \o run.headCommit
                             \o SUMMARY_SEPARATOR \o outcome.value
          /\ (outcome # <<>> /\ (outcome.how = "thrown" \/ outcome.value = <<>>)) =>
               /\ run.postCalls = 0
               /\ run.result \in {"warning", "failed"})
    /\ [][(run'.n = run.n /\ prComments' # prComments) =>
             /\ run.postCalls = 1
             /\ run.pc = "awaitPost"
             /\ run'.pc = "ended"
             /\ prComments' = Append(prComments, run.body)]_vars

\* a run has posted the summary LGTM for head commit a1
C24_Witness ==
    /\ run.result = "posted"
    /\ run.postCalls = 1
    /\ prComments # <<>>
    /\ prComments[Len(prComments)] =
         AI_REVIEW_COMMENT_PREFIX \o <<"a", "1">> \o SUMMARY_SEPARATOR
         \o <<"L", "G", "T", "M">>

\* C25: a run that ended on an error is reported as the input
\* fail_action_if_review_failed says: a warning when it is 'false' or not
\* supplied, a failed action when it is 'true'.
C25_FailPolicyFollowsInput ==
    (run.pc = "ended" /\ run.result \in {"warning", "failed"}) =>
        /\ run.inputs.fail_action_if_review_failed \in {<<"f", "a", "l", "s", "e">>, <<>>}
             => run.result = "warning"
        /\ run.inputs.fail_action_if_review_failed = <<"t", "r", "u", "e">>
             => run.result = "failed"

\* the bodies a run can write, and the sha written in one
WrittenBodies ==
    {commentBody(sha, reviewSummary) :
        sha \in Shas, reviewSummary \in {t \in Summaries : validSummary(t)}}
    \cup {OldMarker}

WrittenSha(body) ==
    CHOOSE sha \in Shas \cup {OldSha} :
        \E reviewSummary \in Summaries \cup {<<"o", "l", "d">>} :
            body = commentBody(sha, reviewSummary)

\* C26: every body a run can write starts with the marker prefix and parses
\* to the sha written in it; once a run has listed the comments of a pull
\* request that carries written markers, its base commit is the sha written
\* in the last of them.
C26_MarkerRoundTrip ==
    /\ \A sha \in Shas : \A reviewSummary \in Summaries :
         /\ startsWith(commentBody(sha, reviewSummary), AI_REVIEW_COMMENT_PREFIX)
         /\ lastReviewComment(<<commentBody(sha, reviewSummary)>>) = 1
         /\ newBaseCommit(commentBody(sha, reviewSummary)) = sha
    /\ run.pc \in {"awaitFiles", "awaitReview", "awaitPost"} =>
         LET written == {k \in 1..Len(prComments) : prComments[k] \in WrittenBodies}
         IN  written # {} =>
               run.baseCommit =
                 WrittenSha(prComments[CHOOSE k \in written : \A j \in written : j <= k])

\* the second run reviews from b2, the head of the first run, whose marker
\* quotes another marker and follows the marker of an older run
C26_Witness ==
    /\ run.n = 2
    /\ run.pc = "awaitReview"
    /\ Len(prComments) = 3
    /\ prComments[1] = OldMarker
    /\ prComments[2] = commentBody(<<"b", "2">>, QuotingSummary)
    /\ prComments[3] = UserComment
    /\ run.baseCommit = <<"b", "2">>

(***************************************************************************)
(* Claims about the cache lock (SpecCache).                                *)
(***************************************************************************)
\* C31: the lock is not held during the fileContentGetter call: no caller
\* whose path is cached waits for the lock while another caller is waiting
\* for its fetch.
C31_FetchDoesNotBlockCachedPath ==
    \A i \in DOMAIN calls : \A j \in DOMAIN calls :
        (calls[i].pc = "awaitFetch" /\ calls[j].pc = "awaitLock") =>
            ~InCache(fileCache, message.tool_calls[j].call.path)

(***************************************************************************)
(* Claims that compare the two adapters (Spec).                            *)
(***************************************************************************)
\* C32: the two adapters implement one state machine: whichever adapter
\* runs, the reply to a get_file_content request repeated from an earlier
\* turn, and the summary returned at the iteration ceiling, are what the rule
\* of either adapter gives.
C32_AdaptersAgree ==
    \A a \in Adapters :
        /\ (BatchInHand /\ calls # <<>>) =>
             \A i \in DOMAIN calls :
                 ( /\ IsGetFileContent(i)
                   /\ ValidRequest(CallOf(i))
                   /\ RequestedInEarlierTurn(i)
                   /\ calls[i].pc = "settled" ) =>
                      ( calls[i].toolOutput = PreviouslyProvided(CallOf(i))
                        <=> Deduplicates(a) )
        /\ (pc = "done" /\ outcome.how = "ceiling") =>
             outcome.value = TerminatedText(a, reviewState)

\* C33: a review (a doReview call, or an attempt of the retry loop) starts
\* with an empty content cache and a fresh reviewState: when its first model
\* call is in flight nothing is cached and the state is the initial one.
C33_FreshCachePerReview ==
    (pc = "awaitModel" /\ modelCalls = 1) =>
        /\ reviewState = NewReviewState(adapter)
        /\ fileCache = <<>>

(***************************************************************************)
(* Claims about SimpleMutex (SpecCache).                                   *)
(***************************************************************************)
\* the callers between a successful acquire and their release
Holders == {i \in DOMAIN calls : calls[i].pc \in {"lockGranted", "awaitFetch"}}

\* C34: the lock is never left with a waiter that has given up: once every
\* caller that held the lock has released it, the lock is free, so that the
\* next acquire is granted at once.
C34_LockNotLostToTimedOutWaiter ==
    Holders = {} => ~cacheMutex.locked

\* the queued callers whose acquire has not timed out
LiveWaiters == {j \in DOMAIN calls : calls[j].pc = "awaitLock"}

\* at most one caller is between a successful acquire and its release
MutualExclusion == Cardinality(Holders) <= 1

\* a step that frees the lock or takes a waiter off the queue is the release
\* of the caller that holds the lock
ReleasedByHolder ==
    (\/ cacheMutex.locked /\ ~cacheMutex'.locked
     \/ Len(cacheMutex'.waiting) < Len(cacheMutex.waiting)) =>
        \E i \in Holders : calls'[i].pc = "settled"

\* a waiter is granted the lock only when no caller queued before it waits
GrantedInOrder ==
    \A j \in LiveWaiters :
        calls'[j].pc = "lockGranted" => \A k \in LiveWaiters : j <= k

\* the release of the holder hands the lock to the first queued caller that
\* has not timed out
HandOff ==
    \A i \in Holders :
        (calls'[i].pc = "settled" /\ LiveWaiters # {}) =>
            \E j \in LiveWaiters :
                /\ \A k \in LiveWaiters : j <= k
                /\ calls'[j].pc = "lockGranted"

\* C35: SimpleMutex gives mutual exclusion and FIFO hand-off: at most one
\* caller holds the lock, only the holder releases it, waiters are granted
\* the lock in the order of their acquire calls, and a release hands the lock
\* to the first waiter that has not timed out.
C35_MutualExclusionFifoHandOff ==
    /\ []MutualExclusion
    /\ [][ReleasedByHolder /\ GrantedInOrder /\ HandOff]_vars

(***************************************************************************)
(* Claims about the results of tool calls (Spec).                          *)
(***************************************************************************)
\* the history holds a tool result that is the excerpt for the triple of c
ExcerptProvided(c) ==
    LET h == reviewState.messageHistory
        excerpt == Excerpt(c.path, c.startLineNumber, c.endLineNumber)
    IN  \E k \in 1..Len(h) :
            IF adapter = "openai"
            THEN h[k].role = "tool" /\ h[k].content = excerpt
            ELSE /\ h[k].role = "user"
                 /\ \E j \in 1..Len(h[k].content) :
                        /\ h[k].content[j].type = "tool_result"
                        /\ h[k].content[j].content = excerpt

\* C36: a get_file_content call is answered with the "Previously provided
\* content" notice only if an earlier call of the review was answered with
\* the excerpt for the same (path, start, end) triple.
C36_NoticeOnlyAfterExcerpt ==
    (BatchInHand /\ calls # <<>>) =>
        \A i \in DOMAIN calls :
            ( /\ IsGetFileContent(i)
              /\ calls[i].pc = "settled"
              /\ calls[i].toolOutput = PreviouslyProvided(CallOf(i)) )
                => ExcerptProvided(CallOf(i))

(***************************************************************************)
(* Claims about tool calls that cannot be executed (SpecTurn).             *)
(***************************************************************************)
\* the tool of call c does not exist, or its arguments cannot be read
Unexecutable(c) == c.name \notin KnownTools \/ ~c.wellFormed

UnexecutableCalls == {i \in DOMAIN calls : Unexecutable(CallOf(i))}

\* the tool results such a call may get: 'Unknown tool: <name>' for a tool
\* that does not exist, 'Error: <message>' for arguments that cannot be read
ErrorResults(c) ==
    (IF c.name \notin KnownTools THEN {Text("Unknown tool: " \o c.name)} ELSE {})
    \cup (IF ~c.wellFormed THEN {Text("Error: " \o ArgumentsErrorText(adapter))} ELSE {})

\* C37: a tool call with an unknown tool name or with arguments that cannot
\* be read (a mark_as_done call included) gets an error tool result under
\* its call identifier, causes no fileContentGetter or fileCommentator call
\* and takes no cache lock, leaves summary, commentsMade and reviewedFiles
\* as they were, and does not end the review: the turn ends the review only
\* if the response holds a mark_as_done call whose arguments can be read.
C37_UnexecutableCallGetsErrorResult ==
    /\ [](\A i \in UnexecutableCalls :
            /\ ~calls[i].fetched
            /\ ~calls[i].dispatched
            /\ calls[i].pc \in {"pending", "settled"}
            /\ calls[i].pc = "settled" =>
                 /\ calls[i].toolOutput \in ErrorResults(CallOf(i))
                 /\ (AllSettled /\ pc # "tools") =>
                      /\ ResultCount(message.tool_calls[i].id) = 1
                      /\ ResultsFor(message.tool_calls[i].id) = {calls[i].toolOutput})
    /\ [][\A i \in UnexecutableCalls :
            (calls[i].pc = "pending" /\ calls'[i].pc # "pending") =>
                /\ reviewState'.summary = reviewState.summary
                /\ reviewState'.commentsMade = reviewState.commentsMade
                /\ reviewState'.reviewedFiles = reviewState.reviewedFiles
                /\ fileCache' = fileCache
                /\ cacheMutex' = cacheMutex]_vars
    /\ [][(pc = "tools" /\ pc' = "done") => MarkCalls # {}]_vars
    /\ [][(pc = "tools" /\ pc' # "tools" /\ MarkCalls = {}) =>
             (pc' = "awaitModel" /\ modelCalls' = modelCalls + 1)]_vars

\* a response of a mark_as_done call whose arguments cannot be read and a
\* call of a tool that does not exist has been answered with two error
\* results, and the follow-up request is in flight
C37_Witness ==
    /\ pc = "awaitModel"
    /\ modelCalls = 2
    /\ Len(calls) = 2
    /\ CallOf(1) = MarkDoneMalformed
    /\ CallOf(2) = UnknownTool
    /\ ResultsFor(message.tool_calls[1].id) = {Text("Error: " \o ArgumentsErrorText(adapter))}
    /\ ResultsFor(message.tool_calls[2].id) = {Text("Unknown tool: edit_file")}
    /\ reviewState.summary = ""
    /\ reviewState.commentsMade = 0

Marked(messages, k) ==
    \A j \in 1..Len(messages[k].content) :
        /\ "cache_control" \in DOMAIN messages[k].content[j]
        /\ messages[k].content[j].cache_control = [type |-> "ephemeral"]

\* no block of message k of the list carries cache_control
Unmarked(messages, k) ==
    \A j \in 1..Len(messages[k].content) :
        "cache_control" \notin DOMAIN messages[k].content[j]

\* C39: while a model call of the Anthropic adapter is in flight,
\* reviewState.messageHistory is as it was pushed, without cache_control on
\* any block; the list sent is a copy of it in which the blocks of the last
\* message, and of no earlier message, carry cache_control, the blocks being
\* otherwise those of the history; and applyCacheControl applied to that
\* list returns that list.
C39_CacheControlOnLatestOnly ==
    (adapter = "anthropic" /\ pc = "awaitModel") =>
        LET h == reviewState.messageHistory
            sent == applyCacheControl(h)
        IN  /\ \A k \in 1..Len(h) : Unmarked(h, k)
            /\ request.messages = sent
            /\ Len(sent) = Len(h)
            /\ Marked(sent, Len(sent))
            /\ \A k \in 1..(Len(sent) - 1) : Unmarked(sent, k) /\ sent[k] = h[k]
            /\ \A k \in 1..Len(sent) :
                 /\ sent[k].role = h[k].role
                 /\ Len(sent[k].content) = Len(h[k].content)
                 /\ \A j \in 1..Len(h[k].content) :
                      withoutCacheControl(sent[k].content[j]) = h[k].content[j]
            /\ applyCacheControl(sent) = sent

\* the third request of a review: five messages, the mark on the tool result
\* of the second turn and no longer on that of the first
C39_Witness ==
    /\ adapter = "anthropic"
    /\ pc = "awaitModel"
    /\ modelCalls = 3
    /\ Len(reviewState.messageHistory) = 5
    /\ reviewState.messageHistory[5].content[1].type = "tool_result"
    /\ Marked(request.messages, 5)
    /\ Unmarked(request.messages, 3)
    /\ Unmarked(reviewState.messageHistory, 5)

====
